---- MODULE Spec2Model ----
(***************************************************************************)
(* Resumable archival and consolidation pipeline of                        *)
(* scripts/download_ercot_public_reports.py (one dataset, repeated runs,   *)
(* process crashes) and the fingerprint backfill of                        *)
(* scripts/backfill_post_datetime.py.                                      *)
(***************************************************************************)
EXTENDS Integers, Sequences, FiniteSets, TLC

\* ------------------------------------------------------------------ bounds
NumDocs == 2          \* entries in the remote catalog
MaxRuns == 2          \* process starts of the downloader (first run + restarts)
MaxPlan == 2          \* items of a backfill doc_plan
MaxFileRows == 2      \* rows of the period file the backfill reads

\* --------------------------------------------------------- remote catalog
\* An archive doc: docId ("" = no identifier), the month of its postDatetime
\* and the timestamps of the rows of its CSV payload (0 = no parseable key).
DocPool ==
    { [docId |-> "A", month |-> 1, rows |-> <<2, 1>>],
      [docId |-> "B", month |-> 2, rows |-> <<3>>],
      [docId |-> "C", month |-> 1, rows |-> << >>],
      [docId |-> "",  month |-> 1, rows |-> <<5>>] }

Months == {1, 2}
DocIds == {"A", "B", "C"}
PageSizes == {1, 2}

VARIABLES
    catalog,        \* remote: the archive listing, in API order
    stateFile,      \* disk: state/<dataset>.json
    cacheFile,      \* disk: state/<dataset>.archive_docs.jsonl
    monthly,        \* disk: consolidated period file per month
    marker,         \* disk: .docids marker file per month
    sortCache,      \* disk: .sortcache.json per month
    source,         \* disk: downloaded source file per docId
    pc,             \* position of the running process in main()
    args,           \* command-line settings of the running process
    dataset_state,  \* in-memory checkpoint record
    docs,           \* in-memory item list
    page,           \* listing: page number to request next
    pageRows,       \* listing: tagged rows of the page being recorded
    cacheIdx,       \* listing: lines of pageRows already appended to the cache
    doc_index,      \* item loop position
    marker_cache,   \* in-memory membership cache per marker path
    touched,        \* touched_monthly_paths
    sortQueue,      \* period files still to be sorted in this run
    sortRows,       \* sort: the reordered rows being written back
    summaryStatus,  \* dataset_summary["status"]
    runs,           \* number of process starts so far
    requested,      \* history: page numbers requested in the current run
    hist,           \* history: facts about the runs so far
    bf,             \* state of the backfill call (scripts/backfill_post_datetime.py)
    srt,            \* one period file under stand-alone sort_monthly_csv calls
    hk,             \* one derivation of a date and hour-ending sort key
    dl,             \* one download_doc call
    nf,             \* the item loop under download failures
    ls,              \* one list_archive_docs_with_retries call
    rn,              \* one run of main over several datasets
    bk,              \* one bulk fetch: the chunked download_docs requests of a caller
    sv,              \* the checkpoint file under save_dataset_state calls and kills
    mh,              \* one period file under append_doc_to_monthly_csv calls, with its header
    fe,              \* one find_earliest_available_date call and the probes it has made
    th,              \* the HTTP client's throttle and the requests sent through _request
    ip              \* runs of the bulk and item phases of one dataset, dry or real, with kills

vars == << catalog, stateFile, cacheFile, monthly, marker, sortCache, source,
           pc, args, dataset_state, docs, page, pageRows, cacheIdx, doc_index,
           marker_cache, touched, sortQueue, sortRows, summaryStatus, runs,
           requested, hist, bf, srt, hk, dl, nf, ls, rn, bk, sv, mh, fe, th, ip >>

\* The stand-alone calls studied apart from the pipeline run.
calls == << bf, srt, hk, dl, nf, ls, rn, bk, sv, mh, fe, th, ip >>

pipelineVars == << catalog, stateFile, cacheFile, monthly, marker, sortCache, source,
                   pc, args, dataset_state, docs, page, pageRows, cacheIdx, doc_index,
                   marker_cache, touched, sortQueue, sortRows, summaryStatus, runs,
                   requested, hist >>

diskVars == << stateFile, cacheFile, monthly, marker, sortCache, source >>
memVars == << args, dataset_state, docs, page, pageRows, cacheIdx, doc_index,
              marker_cache, touched, sortQueue, sortRows, summaryStatus, requested >>

\* ------------------------------------------------------------- utilities
Min(a, b) == IF a < b THEN a ELSE b
Max(a, b) == IF a > b THEN a ELSE b
Range(s) == { s[i] : i \in DOMAIN s }

\* --------------------------------------------------------------- windows
DatasetId == "NP6-905-CD"
ArchiveUrl == "archive/np6-905-cd"

Window(ds, wf, wt, ps, ord, cap, url) ==
    [dataset_id |-> ds, window_from |-> wf, window_to |-> wt, page_size |-> ps,
     download_order |-> ord, max_docs_per_dataset |-> cap, archive_url |-> url]

\* The settings a run of the pipeline is started with.
RunWindows == { Window(DatasetId, 1, 2, ps, "api", 0, ArchiveUrl) : ps \in PageSizes }

NoArgs == Window("", 0, 0, 0, "", 0, "")

\* ------------------------------------------------------ checkpoint store
NoState == [kind |-> "absent"]

initial_dataset_state(w) ==
    [kind |-> "state",
     dataset_id |-> w.dataset_id,
     window_from |-> w.window_from,
     window_to |-> w.window_to,
     page_size |-> w.page_size,
     download_order |-> w.download_order,
     max_docs_per_dataset |-> w.max_docs_per_dataset,
     archive_url |-> w.archive_url,
     status |-> "running",
     listing_complete |-> FALSE,
     last_listed_page |-> 0,
     total_listed_docs |-> 0,
     next_doc_index |-> 0]

\* What the checkpoint path can hold besides a saved record (kind "state") or
\* nothing (NoState): text that json.loads rejects, JSON that is no object,
\* bytes that are not UTF-8 text.
DamagedStates == { [kind |-> k] : k \in {"invalid_json", "not_object", "undecodable"} }

RaisedInLoad == [kind |-> "raised"]

\* load_dataset_state: a missing file, a JSONDecodeError and a payload that is
\* no dict yield the empty record (NoState); read_text raises
\* UnicodeDecodeError, which is not caught, on bytes that are not UTF-8.
load_dataset_state(file) ==
    CASE file.kind = "undecodable" -> RaisedInLoad
      [] file.kind \in {"invalid_json", "not_object"} -> NoState
      [] OTHER -> file

\* Faulty variant: the catalog URL is not compared.
dataset_state_is_compatible_drop_url(state, w) ==
    /\ state.kind = "state"
    /\ state.dataset_id = w.dataset_id
    /\ state.window_from = w.window_from
    /\ state.window_to = w.window_to
    /\ state.page_size = w.page_size
    /\ state.download_order = w.download_order
    /\ state.max_docs_per_dataset = w.max_docs_per_dataset

dataset_state_is_compatible(state, w) ==
    /\ state.kind = "state"
    /\ state.dataset_id = w.dataset_id
    /\ state.window_from = w.window_from
    /\ state.window_to = w.window_to
    /\ state.page_size = w.page_size
    /\ state.download_order = w.download_order
    /\ state.max_docs_per_dataset = w.max_docs_per_dataset
    /\ state.archive_url = w.archive_url

\* ------------------------------------------------------ item listing cache
NoCacheFile == [exists |-> FALSE, lines |-> << >>]

CacheLine(p, d) == [page |-> p, doc |-> d]

Tagged(d, p) == [docId |-> d.docId, month |-> d.month, rows |-> d.rows, archive_page |-> p]

RECURSIVE SeqMaxPage(_)
SeqMaxPage(lines) ==
    IF lines = << >> THEN 0 ELSE Max(Head(lines).page, SeqMaxPage(Tail(lines)))

\* load_archive_docs_cache: (docs, max_page); every line carries its page.
load_archive_docs_cache(file) ==
    [docs |-> [i \in 1..Len(file.lines) |-> Tagged(file.lines[i].doc, file.lines[i].page)],
     max_page |-> SeqMaxPage(file.lines)]

\* Faulty variant: the listing always restarts at page 1.
resume_start_page_always_one(cached_last_page) == 1

\* main, line 2513: listing resumes after the highest page in the cache.
resume_start_page_of(cached_last_page) == cached_last_page + 1

\* ------------------------------------------------------------ the remote
\* list_archive_page: page p (1-based) of the catalog for the given page size.
list_archive_page(p, size) ==
    SubSeq(catalog, (p - 1) * size + 1, Min(p * size, Len(catalog)))

\* ------------------------------------------------------- ordering helpers
\* Python's sorted() on <<key, item>> pairs: stable, and with reverse=True
\* items of equal key keep their original relative order too.
RECURSIVE InsertStable(_, _, _)
InsertStable(x, s, descending) ==
    IF s = << >> THEN << x >>
    ELSE IF (IF descending THEN x[1] > Head(s)[1] ELSE x[1] < Head(s)[1])
         THEN << x >> \o s
         ELSE << Head(s) >> \o InsertStable(x, Tail(s), descending)

RECURSIVE SortedPairs(_, _)
SortedPairs(s, descending) ==
    IF s = << >> THEN << >>
    ELSE InsertStable(s[Len(s)], SortedPairs(SubSeq(s, 1, Len(s) - 1), descending), descending)

Items(pairs) == [i \in 1..Len(pairs) |-> pairs[i][2]]

\* extract_doc_id: the stripped identifier, "" when the doc has none.
extract_doc_id(doc) == doc.docId

IdRank(id) == CASE id = "" -> 0 [] id = "A" -> 1 [] id = "B" -> 2 [] OTHER -> 3

\* order_archive_docs: key (postDatetime, docId); every doc of the pool is dated.
order_archive_docs(ds, order) ==
    IF order = "api" THEN ds
    ELSE Items(SortedPairs([i \in 1..Len(ds) |-> << ds[i].month * 4 + IdRank(extract_doc_id(ds[i])), ds[i] >>],
                           order = "newest-first"))

\* main, lines 2609-2610: the item cap (0 = unlimited).
cap_docs(ds, cap) == IF cap > 0 THEN SubSeq(ds, 1, Min(cap, Len(ds))) ELSE ds

\* main, lines 2613-2617: the persisted next item index, clamped to the list.
resume_doc_index_of(state, ds) == Max(0, Min(state.next_doc_index, Len(ds)))

\* --------------------------------------------------- consolidation store
NoFile == [exists |-> FALSE, rows |-> << >>, mtime |-> 0]

\* A row of a period file: << docId of the item it came from, timestamp >>.
DocRows(doc) == [i \in 1..Len(doc.rows) |-> << doc.docId, doc.rows[i] >>]

\* append_doc_to_monthly_csv (structured append; the doc carries a postDatetime):
\* a payload without data rows writes nothing.
append_doc_to_monthly_csv(doc, file) ==
    IF doc.rows = << >> THEN file
    ELSE [exists |-> TRUE, rows |-> file.rows \o DocRows(doc), mtime |-> file.mtime + 1]

\* Faulty variant: the marker file is never read.
load_marker_doc_ids_empty(markerFile) == {}

\* load_marker_doc_ids: the set of identifiers in the marker file.
load_marker_doc_ids(markerFile) == Range(markerFile)

\* Faulty variant: the line is not written to the marker file.
append_marker_doc_id_not_written(markerFile, id) == markerFile

\* append_marker_doc_id, lines 1152-1155: one line at the end of the file.
append_marker_doc_id(markerFile, id) == Append(markerFile, id)

NotLoaded == [loaded |-> FALSE, ids |-> {}]

\* Faulty variant: the membership cache is not filled from the marker file.
known_doc_ids_never_loaded(m) == marker_cache[m].ids

\* main, lines 2854-2857: the membership cache entry, loaded on first use.
known_doc_ids(m) ==
    IF marker_cache[m].loaded THEN marker_cache[m].ids ELSE load_marker_doc_ids(marker[m])

\* ------------------------------------------------------------ sort engine
MONTHLY_SORT_CACHE_VERSION == 1

NoSortCache == [exists |-> FALSE, version |-> 0, sort_order |-> "", sort_strategy |-> "",
                size_bytes |-> 0, mtime_ns |-> 0, classification |-> ""]

HasKey(row) == row[2] > 0

ParsedRows(rows) == SelectSeq(rows, HasKey)
UnparsedRows(rows) == SelectSeq(rows, LAMBDA r : ~HasKey(r))

\* sort_monthly_csv, lines 1887-1909: the already_sorted flag after the scan.
already_sorted(rows, order) ==
    /\ \A i, j \in 1..Len(rows) : (i < j /\ ~HasKey(rows[i])) => ~HasKey(rows[j])
    /\ LET P == ParsedRows(rows)
       IN \A i \in 1..(Len(P) - 1) :
            IF order = "ascending" THEN P[i + 1][2] >= P[i][2] ELSE P[i + 1][2] <= P[i][2]

\* sort_monthly_csv, lines 1942-1948: keyed rows in order, then the unparsed rows.
ordered_rows(rows, order) ==
    LET P == ParsedRows(rows)
    IN Items(SortedPairs([i \in 1..Len(P) |-> << P[i][2], P[i] >>], order = "descending"))
       \o UnparsedRows(rows)

\* _monthly_sort_file_signature
Signature(file) == [size |-> Len(file.rows), mtime |-> file.mtime]

MonthlySortStrategy == "auto"     \* --monthly-sort-strategy default

\* _cached_monthly_sort_classification: "none" stands for None.
cached_monthly_sort_classification(cache, sort_order, sort_strategy, sig) ==
    IF /\ cache.exists
       /\ cache.version = MONTHLY_SORT_CACHE_VERSION
       /\ cache.sort_order = sort_order
       /\ cache.sort_strategy = sort_strategy
       /\ cache.size_bytes = sig.size
       /\ cache.mtime_ns = sig.mtime
       /\ cache.classification \in {"sorted", "skipped"}
    THEN cache.classification ELSE "none"

\* _write_monthly_sort_cache: the payload written.
monthly_sort_cache_payload(sort_order, sort_strategy, class, sig) ==
    [exists |-> TRUE, version |-> MONTHLY_SORT_CACHE_VERSION, sort_order |-> sort_order,
     sort_strategy |-> sort_strategy, size_bytes |-> sig.size, mtime_ns |-> sig.mtime,
     classification |-> class]

\* The cache lookup of the run (sort order and strategy of the command line).
cached_classification(cache, order, file) ==
    cached_monthly_sort_classification(cache, order, MonthlySortStrategy, Signature(file))

\* The cache record the run writes for a file.
SortCacheRecord(order, class, file) ==
    monthly_sort_cache_payload(order, MonthlySortStrategy, class, Signature(file))

MonthlySortOrder == "ascending"   \* --sort-monthly-output default

\* -------------------------------------- sort_monthly_csv as one whole call
\* A row of a period file under the stand-alone sort: << tag, target time,
\* issue time >>, 0 for a time that no column of the row yields.  The target
\* time comes from a column that _csv_row_timestamp reads too, the issue time
\* from one that only _csv_row_issue_timestamp reads (e.g. publishDateTime).
NoKey == << >>

\* _csv_row_sort_key; NoKey stands for None.
csv_row_sort_key(row, sort_strategy) ==
    CASE sort_strategy = "postdatetime" ->
            IF row[3] > 0 THEN << row[3] >>
            ELSE IF row[2] > 0 THEN << row[2] >> ELSE NoKey
      [] sort_strategy = "timestamp" ->
            IF row[2] > 0 THEN << row[2] >> ELSE NoKey
      [] sort_strategy = "forecast-aware" ->
            IF row[2] = 0 /\ row[3] = 0 THEN NoKey
            ELSE << IF row[2] > 0 THEN row[2] ELSE row[3],
                    IF row[3] > 0 THEN row[3] ELSE row[2] >>

\* resolve_monthly_sort_strategy: every header of the stand-alone sort has a
\* target-time and an issue-time column, so auto resolves to forecast-aware.
resolve_monthly_sort_strategy(sort_strategy) ==
    IF sort_strategy = "auto" THEN "forecast-aware" ELSE sort_strategy

\* Python's tuple comparison of two keys of one strategy, as a number:
\* times are below 4, so the order of the numbers is the lexicographic one.
KeyOrder(key) == IF Len(key) = 1 THEN key[1] ELSE key[1] * 4 + key[2]

\* sort_monthly_csv, lines 1890-1898: the two lists the scan builds.
parsed_rows(rows, strategy) == SelectSeq(rows, LAMBDA r : csv_row_sort_key(r, strategy) # NoKey)
unparsed_rows(rows, strategy) == SelectSeq(rows, LAMBDA r : csv_row_sort_key(r, strategy) = NoKey)

\* Faulty variant: equal neighbouring keys count as out of order.
scan_already_sorted_strict(rows, sort_order, strategy) ==
    /\ \A i, j \in 1..Len(rows) :
         (i < j /\ csv_row_sort_key(rows[i], strategy) = NoKey)
            => csv_row_sort_key(rows[j], strategy) = NoKey
    /\ LET P == parsed_rows(rows, strategy)
       IN \A i \in 1..(Len(P) - 1) :
            LET k == KeyOrder(csv_row_sort_key(P[i + 1], strategy))
                previous_key == KeyOrder(csv_row_sort_key(P[i], strategy))
            IN IF sort_order = "ascending" THEN k > previous_key ELSE k < previous_key

\* sort_monthly_csv, lines 1887-1909: already_sorted after the scan.
scan_already_sorted(rows, sort_order, strategy) ==
    /\ \A i, j \in 1..Len(rows) :
         (i < j /\ csv_row_sort_key(rows[i], strategy) = NoKey)
            => csv_row_sort_key(rows[j], strategy) = NoKey
    /\ LET P == parsed_rows(rows, strategy)
       IN \A i \in 1..(Len(P) - 1) :
            LET k == KeyOrder(csv_row_sort_key(P[i + 1], strategy))
                previous_key == KeyOrder(csv_row_sort_key(P[i], strategy))
            IN IF sort_order = "ascending" THEN ~(k < previous_key) ELSE ~(k > previous_key)

\* Faulty variant: the unparsed rows are written back in reverse.
rows_to_write_unparsed_reversed(rows, sort_order, strategy) ==
    LET P == parsed_rows(rows, strategy)
        U == unparsed_rows(rows, strategy)
    IN Items(SortedPairs([i \in 1..Len(P) |-> << KeyOrder(csv_row_sort_key(P[i], strategy)), P[i] >>],
                         sort_order = "descending"))
       \o [i \in 1..Len(U) |-> U[Len(U) + 1 - i]]

\* Faulty variant: descending is the ascending order read backwards, so rows
\* of equal key change places.
rows_to_write_descending_reversed(rows, sort_order, strategy) ==
    LET P == parsed_rows(rows, strategy)
        up == Items(SortedPairs([i \in 1..Len(P) |-> << KeyOrder(csv_row_sort_key(P[i], strategy)), P[i] >>],
                                FALSE))
    IN (IF sort_order = "descending" THEN [i \in 1..Len(up) |-> up[Len(up) + 1 - i]] ELSE up)
       \o unparsed_rows(rows, strategy)

\* sort_monthly_csv, lines 1942-1948: ordered_rows.
rows_to_write(rows, sort_order, strategy) ==
    LET P == parsed_rows(rows, strategy)
    IN Items(SortedPairs([i \in 1..Len(P) |-> << KeyOrder(csv_row_sort_key(P[i], strategy)), P[i] >>],
                         sort_order = "descending"))
       \o unparsed_rows(rows, strategy)

\* Faulty variant: a file found in order is written back all the same.
sort_monthly_csv_always_writes(file, header, cache, sort_order, sort_strategy, cache_write_ok) ==
    LET after == [exists |-> TRUE, mtime |-> file.mtime + 2,
                  rows |-> rows_to_write(file.rows, sort_order,
                                         resolve_monthly_sort_strategy(sort_strategy))]
    IN [file |-> after, result |-> "already", scanned |-> TRUE,
        cache |-> monthly_sort_cache_payload(sort_order, sort_strategy, "sorted", Signature(after))]

\* sort_monthly_csv(path, sort_order, sort_strategy): the file and cache record
\* it leaves, its return value, and whether it opened the file (scanned).
\* header: "none" - the file is empty, DictReader finds no field names;
\* "legacy" - a header without the post column; "post" - with it.
\* cache_write_ok: _write_monthly_sort_cache swallows a failed write.
sort_monthly_csv(file, header, cache, sort_order, sort_strategy, cache_write_ok) ==
    LET before == Signature(file)
        cached == cached_monthly_sort_classification(cache, sort_order, sort_strategy, before)
        effective_strategy == resolve_monthly_sort_strategy(sort_strategy)
        Written(class, sig) ==
            IF cache_write_ok
            THEN monthly_sort_cache_payload(sort_order, sort_strategy, class, sig)
            ELSE cache
        Kept(class, result) ==
            [file |-> file, cache |-> Written(class, before), result |-> result, scanned |-> TRUE]
    IN IF cached = "sorted"
       THEN [file |-> file, cache |-> cache, result |-> "already", scanned |-> FALSE]
       ELSE IF cached = "skipped"
       THEN [file |-> file, cache |-> cache, result |-> "skipped", scanned |-> FALSE]
       ELSE IF header = "none" THEN Kept("skipped", "skipped")
       ELSE IF file.rows = << >> THEN Kept("sorted", "already")
       ELSE IF parsed_rows(file.rows, effective_strategy) = << >> THEN Kept("skipped", "skipped")
       ELSE IF scan_already_sorted(file.rows, sort_order, effective_strategy)
       THEN Kept("sorted", "already")
       ELSE LET after == [exists |-> TRUE, mtime |-> file.mtime + 2,
                          rows |-> rows_to_write(file.rows, sort_order, effective_strategy)]
            IN [file |-> after, cache |-> Written("sorted", Signature(after)),
                result |-> "sorted", scanned |-> TRUE]

\* read_monthly_sort_cache_classification (scripts/backfill_post_datetime.py)
read_monthly_sort_cache_classification(cache) ==
    IF ~cache.exists THEN "missing"
    ELSE IF cache.classification \in {"sorted", "skipped"} THEN cache.classification
    ELSE "invalid"

\* add_missing_post_datetime_in_place, lines 1179-1184
use_fingerprint_fill(row_count_mismatch, overwrite_post_datetime, has_post_field, sort_cache_classification) ==
    \/ row_count_mismatch
    \/ overwrite_post_datetime
    \/ has_post_field
    \/ sort_cache_classification # "skipped"

NoSortOp == [op |-> "none"]
NoSortCall == [phase |-> "none"]
NoHourKey == [phase |-> "none"]
NoDownload == [phase |-> "none"]
NoItemLoop == [phase |-> "none"]
NoListing == [phase |-> "none"]
NoItemPhase == [phase |-> "none"]
NoClient == [phase |-> "none"]
NoSearch == [phase |-> "none"]
NoHeaderCall == [phase |-> "none"]
NoSave == [phase |-> "none"]
NoBulk == [phase |-> "none"]
NoRun == [phase |-> "none"]

\* ----------------------------------------------------------- the process
CleanMarkerCache == [m \in Months |-> NotLoaded]

\* A process that is not running holds nothing in memory.
MemoryCleared ==
    /\ args' = NoArgs
    /\ dataset_state' = NoState
    /\ docs' = << >>
    /\ page' = 0
    /\ pageRows' = << >>
    /\ cacheIdx' = 0
    /\ doc_index' = 0
    /\ marker_cache' = CleanMarkerCache
    /\ touched' = {}
    /\ sortQueue' = << >>
    /\ sortRows' = << >>
    /\ summaryStatus' = "running"
    /\ requested' = << >>

NoBackfill == [phase |-> "none"]

\* History: crashed - some run was killed; ckptOnly - every kill so far came
\* right after a checkpoint save; failed - a listing or download failed;
\* windows - the settings used so far; the rest describes what the current
\* run found on disk when it started (diffFields: window fields in which
\* the stored checkpoint differed, -1 when there was none).
NoHistory == [crashed |-> FALSE, ckptOnly |-> TRUE, failed |-> FALSE, windows |-> {},
              compatible |-> FALSE, cachedLastPage |-> 0, loadedComplete |-> FALSE,
              cacheExisted |-> FALSE, diffFields |-> -1]

WindowFields == {"dataset_id", "window_from", "window_to", "page_size", "download_order",
                 "max_docs_per_dataset", "archive_url"}

DifferingFields(state, w) == { f \in WindowFields : state[f] # w[f] }

Init ==
    /\ catalog \in [1..NumDocs -> DocPool]
    /\ stateFile = NoState
    /\ cacheFile = NoCacheFile
    /\ monthly = [m \in Months |-> NoFile]
    /\ marker = [m \in Months |-> << >>]
    /\ sortCache = [m \in Months |-> NoSortCache]
    /\ source = [d \in DocIds |-> FALSE]
    /\ pc = "start"
    /\ ip = NoItemPhase
    /\ th = NoClient
    /\ fe = NoSearch
    /\ mh = NoHeaderCall
    /\ sv = NoSave
    /\ bk = NoBulk
    /\ rn = NoRun
    /\ args = NoArgs
    /\ dataset_state = NoState
    /\ docs = << >>
    /\ page = 0
    /\ pageRows = << >>
    /\ cacheIdx = 0
    /\ doc_index = 0
    /\ marker_cache = CleanMarkerCache
    /\ touched = {}
    /\ sortQueue = << >>
    /\ sortRows = << >>
    /\ summaryStatus = "running"
    /\ runs = 0
    /\ requested = << >>
    /\ hist = NoHistory
    /\ bf = NoBackfill
    /\ srt = NoSortCall
    /\ hk = NoHourKey
    /\ dl = NoDownload
    /\ nf = NoItemLoop
    /\ ls = NoListing

\* save_dataset_state: the whole record replaces the file (temp file + rename).
save_dataset_state(state) == state

\* main, lines 2484-2526 (resume enabled): build the record for this run from
\* the stored checkpoint when it is compatible, drop the cache otherwise.
LoadedState(w) ==
    LET loaded == load_dataset_state(stateFile)
        cached == load_archive_docs_cache(cacheFile)
    IN IF dataset_state_is_compatible(loaded, w)
       THEN [loaded EXCEPT !.last_listed_page = cached.max_page,
                           !.total_listed_docs = Len(cached.docs),
                           !.listing_complete = IF cached.max_page = 0 THEN FALSE ELSE @,
                           !.status = "running"]
       ELSE initial_dataset_state(w)

BeginDataset(w) ==
    LET loaded == load_dataset_state(stateFile)
        compat == dataset_state_is_compatible(loaded, w)
        cached == load_archive_docs_cache(cacheFile)
        st == LoadedState(w)
    IN /\ pc \in {"start", "done"}
       /\ runs < MaxRuns
       /\ loaded # RaisedInLoad
       /\ runs' = runs + 1
       /\ args' = w
       /\ dataset_state' = st
       /\ stateFile' = save_dataset_state(st)
       /\ cacheFile' = IF compat THEN cacheFile ELSE NoCacheFile
       /\ docs' = IF compat THEN cached.docs ELSE << >>
       /\ page' = IF compat THEN Max(1, resume_start_page_of(cached.max_page)) ELSE 1
       /\ pc' = IF st.listing_complete /\ cacheFile'.exists THEN "reuse" ELSE "listing"
       /\ pageRows' = << >>
       /\ cacheIdx' = 0
       /\ doc_index' = 0
       /\ marker_cache' = CleanMarkerCache
       /\ touched' = {}
       /\ sortQueue' = << >>
       /\ sortRows' = << >>
       /\ summaryStatus' = "running"
       /\ requested' = << >>
       /\ hist' = [hist EXCEPT !.windows = @ \cup {w},
                               !.compatible = compat,
                               !.cachedLastPage = IF compat THEN cached.max_page ELSE 0,
                               !.loadedComplete = compat /\ loaded.listing_complete,
                               !.cacheExisted = cacheFile.exists,
                               !.diffFields = IF loaded.kind = "state"
                                              THEN Cardinality(DifferingFields(loaded, w))
                                              ELSE -1]
       /\ UNCHANGED << catalog, monthly, marker, sortCache, source, calls >>

\* main, line 2498: load_dataset_state raises and nothing catches it; the
\* process ends with the files as they were.
BeginDatasetRaises(w) ==
    /\ pc \in {"start", "done"}
    /\ runs < MaxRuns
    /\ load_dataset_state(stateFile) = RaisedInLoad
    /\ runs' = runs + 1
    /\ args' = w
    /\ pc' = "died"
    /\ UNCHANGED << catalog, diskVars, dataset_state, docs, page, pageRows, cacheIdx,
                    doc_index, marker_cache, touched, sortQueue, sortRows, summaryStatus,
                    requested, hist, calls >>

\* main, lines 2589-2617: empty listing ends the dataset; otherwise order, cap
\* and position the item loop at the persisted next item index.
PlanDocs(st, ds, saved) ==
    IF ds = << >>
    THEN /\ summaryStatus' = "no_docs_in_window"
         /\ dataset_state' = [st EXCEPT !.status = "completed"]
         /\ stateFile' = save_dataset_state(dataset_state')
         /\ docs' = ds
         /\ doc_index' = 0
         /\ pc' = "done"
    ELSE LET planned == cap_docs(order_archive_docs(ds, args.download_order),
                                 args.max_docs_per_dataset)
         IN /\ summaryStatus' = summaryStatus
            /\ dataset_state' = st
            /\ stateFile' = saved
            /\ docs' = planned
            /\ doc_index' = resume_doc_index_of(st, planned)
            /\ pc' = "doc"

\* main, lines 2532-2541: listing complete and cache present - no listing.
ArchiveCacheReused ==
    LET cached == load_archive_docs_cache(cacheFile)
        st == [dataset_state EXCEPT !.last_listed_page = Max(@, cached.max_page),
                                    !.total_listed_docs = Len(cached.docs)]
    IN /\ pc = "reuse"
       /\ PlanDocs(st, cached.docs, stateFile)
       /\ UNCHANGED << catalog, cacheFile, monthly, marker, sortCache, source, args, page,
                       pageRows, cacheIdx, marker_cache, touched, sortQueue, sortRows,
                       runs, requested, hist, calls >>

\* list_archive_docs_with_retries, lines 1267-1313: request the next page; an
\* empty page ends the listing, otherwise its rows are tagged and collected.
ListArchivePage ==
    LET rows == list_archive_page(page, args.page_size)
        tagged == [i \in 1..Len(rows) |-> Tagged(rows[i], page)]
    IN /\ pc = "listing"
       /\ requested' = Append(requested, page)
       /\ IF rows = << >>
          THEN /\ pc' = "listing_done"
               /\ UNCHANGED << docs, pageRows, cacheIdx >>
          ELSE /\ pc' = "page_cache"
               /\ docs' = docs \o tagged
               /\ pageRows' = tagged
               /\ cacheIdx' = 0
       /\ UNCHANGED << catalog, diskVars, args, dataset_state, page, doc_index, marker_cache,
                       touched, sortQueue, sortRows, summaryStatus, runs, hist, calls >>

\* main, lines 2568-2582: the listing raised; the dataset is halted.
ListArchivePageFails ==
    /\ pc = "listing"
    /\ requested' = Append(requested, page)
    /\ summaryStatus' = "archive_listing_failed"
    /\ dataset_state' = [dataset_state EXCEPT !.status = "failed"]
    /\ stateFile' = save_dataset_state(dataset_state')
    /\ pc' = "done"
    /\ hist' = [hist EXCEPT !.failed = TRUE]
    /\ UNCHANGED << catalog, cacheFile, monthly, marker, sortCache, source, args, docs, page,
                    pageRows, cacheIdx, doc_index, marker_cache, touched, sortQueue,
                    sortRows, runs, calls >>

\* append_archive_docs_cache: one line per doc of the page; the file buffer is
\* flushed as it fills, so the lines reach the disk one after the other.
AppendArchiveDocsCache ==
    /\ pc = "page_cache"
    /\ cacheIdx < Len(pageRows)
    /\ cacheFile' = [exists |-> TRUE,
                     lines |-> Append(cacheFile.lines, CacheLine(page, pageRows[cacheIdx + 1]))]
    /\ cacheIdx' = cacheIdx + 1
    /\ UNCHANGED << catalog, stateFile, monthly, marker, sortCache, source, pc, args,
                    dataset_state, docs, page, pageRows, doc_index, marker_cache, touched,
                    sortQueue, sortRows, summaryStatus, runs, requested, hist, calls >>

\* Faulty variant: the highest page of the record is left as it was.
on_page_listed_keeps_page(state, listed_page, total_docs) ==
    [state EXCEPT !.total_listed_docs = total_docs, !.listing_complete = FALSE,
                  !.status = "running"]

\* on_page_listed, lines 2547-2550: the record it saves.
on_page_listed(state, listed_page, total_docs) ==
    [state EXCEPT !.last_listed_page = listed_page, !.total_listed_docs = total_docs,
                  !.listing_complete = FALSE, !.status = "running"]

\* on_page_listed, lines 2547-2551, then lines 1323-1325 of the lister.
OnPageListed ==
    /\ pc = "page_cache"
    /\ cacheIdx = Len(pageRows)
    /\ dataset_state' = on_page_listed(dataset_state, page, Len(docs))
    /\ stateFile' = save_dataset_state(dataset_state')
    /\ IF Len(pageRows) < args.page_size
       THEN pc' = "listing_done" /\ page' = page
       ELSE pc' = "listing" /\ page' = page + 1
    /\ UNCHANGED << catalog, cacheFile, monthly, marker, sortCache, source, args, docs,
                    pageRows, cacheIdx, doc_index, marker_cache, touched, sortQueue,
                    sortRows, summaryStatus, runs, requested, hist, calls >>

\* main, lines 2583-2617: the listing returned.
ListingComplete ==
    LET st == [dataset_state EXCEPT !.listing_complete = TRUE,
                                    !.total_listed_docs = Len(docs),
                                    !.status = "running"]
    IN /\ pc = "listing_done"
       /\ PlanDocs(st, docs, save_dataset_state(st))
       /\ UNCHANGED << catalog, cacheFile, monthly, marker, sortCache, source, args, page,
                       pageRows, cacheIdx, marker_cache, touched, sortQueue, sortRows,
                       runs, requested, hist, calls >>

\* ------------------------------------------------------------- item loop
CurDoc == docs[doc_index + 1]
CurId == extract_doc_id(CurDoc)
CurMonth == CurDoc.month

InLoop == pc = "doc" /\ doc_index < Len(docs)

\* save_doc_checkpoint
save_doc_checkpoint(st, idx) == [st EXCEPT !.next_doc_index = idx + 1, !.status = "running"]

Checkpointed ==
    /\ dataset_state' = save_doc_checkpoint(dataset_state, doc_index)
    /\ stateFile' = save_dataset_state(dataset_state')
    /\ doc_index' = doc_index + 1
    /\ pc' = "doc"

MarkerCacheLoaded(m) == [marker_cache EXCEPT ![m] = [loaded |-> TRUE, ids |-> known_doc_ids(m)]]

\* main, lines 2834-2845: an item without identifier is skipped.
DocMissingId ==
    /\ InLoop
    /\ CurId = ""
    /\ Checkpointed
    /\ UNCHANGED << catalog, cacheFile, monthly, marker, sortCache, source, args, docs, page,
                    pageRows, cacheIdx, marker_cache, touched, sortQueue, sortRows,
                    summaryStatus, runs, requested, hist, calls >>

\* main, lines 2853-2873: the identifier is in the Merge Marker - nothing to do.
DocAlreadyConsolidated ==
    /\ InLoop
    /\ CurId # ""
    /\ CurId \in known_doc_ids(CurMonth)
    /\ marker_cache' = MarkerCacheLoaded(CurMonth)
    /\ Checkpointed
    /\ UNCHANGED << catalog, cacheFile, monthly, marker, sortCache, source, args, docs, page,
                    pageRows, cacheIdx, touched, sortQueue, sortRows, summaryStatus, runs,
                    requested, hist, calls >>

\* main, lines 2874-2930: the source file is there, or download_doc fetches it.
DocFetch ==
    /\ InLoop
    /\ CurId # ""
    /\ CurId \notin known_doc_ids(CurMonth)
    /\ marker_cache' = MarkerCacheLoaded(CurMonth)
    /\ source' = [source EXCEPT ![CurId] = TRUE]
    /\ pc' = "doc_append"
    /\ UNCHANGED << catalog, stateFile, cacheFile, monthly, marker, sortCache, args,
                    dataset_state, docs, page, pageRows, cacheIdx, doc_index, touched,
                    sortQueue, sortRows, summaryStatus, runs, requested, hist, calls >>

\* main, lines 2953-2985: download_doc raised (not a name-resolution failure).
DocDownloadFails ==
    /\ InLoop
    /\ CurId # ""
    /\ CurId \notin known_doc_ids(CurMonth)
    /\ ~source[CurId]
    /\ marker_cache' = MarkerCacheLoaded(CurMonth)
    /\ summaryStatus' = "running_with_failures"
    /\ dataset_state' = [dataset_state EXCEPT !.status = "running_with_failures"]
    /\ stateFile' = save_dataset_state(dataset_state')
    /\ doc_index' = doc_index + 1
    /\ hist' = [hist EXCEPT !.failed = TRUE]
    /\ UNCHANGED << catalog, cacheFile, monthly, marker, sortCache, source, pc, args, docs,
                    page, pageRows, cacheIdx, touched, sortQueue, sortRows, runs, requested,
                    calls >>

\* main, lines 2934-2939: append the item's rows to the period file.
DocAppendMonthly ==
    /\ pc = "doc_append"
    /\ monthly' = [monthly EXCEPT ![CurMonth] = append_doc_to_monthly_csv(CurDoc, @)]
    /\ touched' = touched \cup {CurMonth}
    /\ pc' = "doc_mark"
    /\ UNCHANGED << catalog, stateFile, cacheFile, marker, sortCache, source, args,
                    dataset_state, docs, page, pageRows, cacheIdx, doc_index, marker_cache,
                    sortQueue, sortRows, summaryStatus, runs, requested, hist, calls >>

\* main, lines 2940-2943: record the identifier in the marker and in the cache.
DocAppendMarker ==
    LET known == marker_cache[CurMonth].ids
    IN /\ pc = "doc_mark"
       /\ IF CurId \notin known
          THEN /\ marker' = [marker EXCEPT ![CurMonth] = append_marker_doc_id(@, CurId)]
               /\ marker_cache' = [marker_cache EXCEPT ![CurMonth] =
                                      [loaded |-> TRUE, ids |-> known \cup {CurId}]]
          ELSE UNCHANGED << marker, marker_cache >>
       /\ pc' = "doc_ckpt"
       /\ UNCHANGED << catalog, stateFile, cacheFile, monthly, sortCache, source, args,
                       dataset_state, docs, page, pageRows, cacheIdx, doc_index, touched,
                       sortQueue, sortRows, summaryStatus, runs, requested, hist, calls >>

\* main, line 2987: the item is done.
DocSaveCheckpoint ==
    /\ pc = "doc_ckpt"
    /\ Checkpointed
    /\ UNCHANGED << catalog, cacheFile, monthly, marker, sortCache, source, args, docs, page,
                    pageRows, cacheIdx, marker_cache, touched, sortQueue, sortRows,
                    summaryStatus, runs, requested, hist, calls >>

\* -------------------------------------------------------- sort of the run
RECURSIVE SetToSortedSeq(_)
SetToSortedSeq(S) ==
    IF S = {} THEN << >>
    ELSE LET x == CHOOSE y \in S : \A z \in S : y <= z
         IN << x >> \o SetToSortedSeq(S \ {x})

\* main, lines 3163-3182: the period files touched by this run, in path order.
SortPlan ==
    /\ pc = "doc"
    /\ doc_index = Len(docs)
    /\ sortQueue' = SetToSortedSeq(touched)
    /\ pc' = "sort"
    /\ UNCHANGED << catalog, diskVars, args, dataset_state, docs, page, pageRows, cacheIdx,
                    doc_index, marker_cache, touched, sortRows, summaryStatus, runs,
                    requested, hist, calls >>

SortFile == sortQueue[1]

\* sort_monthly_csv, lines 1849-1940 and the open(path, "w") of line 1950:
\* cache hit, or scan and classify; a file that needs reordering is truncated.
SortMonthlyCsv ==
    LET m == SortFile
        file == monthly[m]
        order == MonthlySortOrder
        cached == cached_classification(sortCache[m], order, file)
    IN /\ pc = "sort"
       /\ sortQueue # << >>
       /\ IF ~file.exists \/ cached # "none"
          THEN \* open() raised, or the cache answered: nothing is written
               /\ sortQueue' = Tail(sortQueue)
               /\ UNCHANGED << monthly, sortCache, sortRows, pc >>
          ELSE IF ParsedRows(file.rows) = << >>
          THEN /\ sortCache' = [sortCache EXCEPT ![m] = SortCacheRecord(order, "skipped", file)]
               /\ sortQueue' = Tail(sortQueue)
               /\ UNCHANGED << monthly, sortRows, pc >>
          ELSE IF already_sorted(file.rows, order)
          THEN /\ sortCache' = [sortCache EXCEPT ![m] = SortCacheRecord(order, "sorted", file)]
               /\ sortQueue' = Tail(sortQueue)
               /\ UNCHANGED << monthly, sortRows, pc >>
          ELSE /\ sortRows' = ordered_rows(file.rows, order)
               /\ monthly' = [monthly EXCEPT ![m] = [exists |-> TRUE, rows |-> << >>,
                                                    mtime |-> file.mtime + 1]]
               /\ pc' = "sort_write"
               /\ UNCHANGED << sortCache, sortQueue >>
       /\ UNCHANGED << catalog, stateFile, cacheFile, marker, source, args, dataset_state,
                       docs, page, pageRows, cacheIdx, doc_index, marker_cache, touched,
                       summaryStatus, runs, requested, hist, calls >>

\* sort_monthly_csv, lines 1951-1953: the reordered rows reach the file.
SortWriteRows ==
    /\ pc = "sort_write"
    /\ monthly' = [monthly EXCEPT ![SortFile] = [exists |-> TRUE, rows |-> sortRows,
                                                mtime |-> @.mtime + 1]]
    /\ pc' = "sort_cache"
    /\ UNCHANGED << catalog, stateFile, cacheFile, marker, sortCache, source, args,
                    dataset_state, docs, page, pageRows, cacheIdx, doc_index, marker_cache,
                    touched, sortQueue, sortRows, summaryStatus, runs, requested, hist, calls >>

\* sort_monthly_csv, lines 1954-1966: the cache takes the new signature.
SortWriteCache ==
    /\ pc = "sort_cache"
    /\ sortCache' = [sortCache EXCEPT ![SortFile] =
                        SortCacheRecord(MonthlySortOrder, "sorted", monthly[SortFile])]
    /\ sortQueue' = Tail(sortQueue)
    /\ sortRows' = << >>
    /\ pc' = "sort"
    /\ UNCHANGED << catalog, stateFile, cacheFile, monthly, marker, source, args,
                    dataset_state, docs, page, pageRows, cacheIdx, doc_index, marker_cache,
                    touched, summaryStatus, runs, requested, hist, calls >>

\* main, lines 3213-3220: the dataset is done.
DatasetDone ==
    /\ pc = "sort"
    /\ sortQueue = << >>
    /\ summaryStatus' = IF summaryStatus = "running" THEN "completed" ELSE summaryStatus
    /\ dataset_state' = [dataset_state EXCEPT !.status = summaryStatus']
    /\ stateFile' = save_dataset_state(dataset_state')
    /\ pc' = "done"
    /\ UNCHANGED << catalog, cacheFile, monthly, marker, sortCache, source, args, docs, page,
                    pageRows, cacheIdx, doc_index, marker_cache, touched, sortQueue, sortRows,
                    runs, requested, hist, calls >>

\* ---------------------------------------------------------------- crashes
\* Positions at which the disk is as the last checkpoint save left it.
CheckpointPcs == {"listing", "listing_done", "reuse", "doc"}

\* The process dies: the disk stays, the memory is gone.
Crash ==
    /\ pc \notin {"start", "done"}
    /\ pc' = "start"
    /\ MemoryCleared
    /\ hist' = [hist EXCEPT !.crashed = TRUE, !.ckptOnly = @ /\ pc \in CheckpointPcs]
    /\ UNCHANGED << catalog, diskVars, runs, calls >>

\* The process dies inside append_doc_to_monthly_csv, after part of the rows
\* has been flushed to the period file.
CrashDuringAppend ==
    /\ pc = "doc_append"
    /\ \E k \in 1..(Len(CurDoc.rows) - 1) :
          monthly' = [monthly EXCEPT ![CurMonth] =
                         [exists |-> TRUE, rows |-> @.rows \o SubSeq(DocRows(CurDoc), 1, k),
                          mtime |-> @.mtime + 1]]
    /\ pc' = "start"
    /\ MemoryCleared
    /\ hist' = [hist EXCEPT !.crashed = TRUE, !.ckptOnly = FALSE]
    /\ UNCHANGED << catalog, stateFile, cacheFile, marker, sortCache, source, runs, calls >>

Next ==
    \/ \E w \in RunWindows : BeginDataset(w)
    \/ ArchiveCacheReused
    \/ ListArchivePage
    \/ ListArchivePageFails
    \/ AppendArchiveDocsCache
    \/ OnPageListed
    \/ ListingComplete
    \/ DocMissingId
    \/ DocAlreadyConsolidated
    \/ DocFetch
    \/ DocDownloadFails
    \/ DocAppendMonthly
    \/ DocAppendMarker
    \/ DocSaveCheckpoint
    \/ SortPlan
    \/ SortMonthlyCsv
    \/ SortWriteRows
    \/ SortWriteCache
    \/ DatasetDone
    \/ Crash
    \/ CrashDuringAppend

Spec == Init /\ [][Next]_vars

\* --------------------------------------- checkpoint compatibility, alone
\* Stored checkpoints and settings that differ from each other in any subset
\* of the seven window fields.
CompatWindows ==
    { Window(ds, wf, wt, ps, ord, cap, url) :
        ds \in {DatasetId, "NP4-190-CD"}, wf \in {1, 2}, wt \in {2, 3}, ps \in PageSizes,
        ord \in {"api", "newest-first"}, cap \in {0, 1}, url \in {ArchiveUrl, "archive/moved"} }

\* What an earlier run with settings w leaves behind: killed before the first
\* page was recorded, or after the first page (one item) was recorded and done.
StoredAfterKill(w) == [initial_dataset_state(w) EXCEPT !.status = "running"]
StoredAfterPage(w) == [initial_dataset_state(w) EXCEPT !.listing_complete = TRUE,
                                                      !.last_listed_page = 1,
                                                      !.total_listed_docs = 1,
                                                      !.next_doc_index = 1,
                                                      !.status = "completed"]
OnePageCache(d) == [exists |-> TRUE, lines |-> << CacheLine(1, Tagged(d, 1)) >>]

InitCompat ==
    /\ catalog = [i \in 1..NumDocs |-> CHOOSE d \in DocPool : d.docId = "A"]
    /\ \/ stateFile = NoState /\ cacheFile \in {NoCacheFile, OnePageCache(catalog[1])}
       \/ \E w \in CompatWindows :
            \/ stateFile = StoredAfterKill(w) /\ cacheFile = NoCacheFile
            \/ stateFile = StoredAfterPage(w) /\ cacheFile = OnePageCache(catalog[1])
    /\ monthly = [m \in Months |-> NoFile]
    /\ marker = [m \in Months |-> << >>]
    /\ sortCache = [m \in Months |-> NoSortCache]
    /\ source = [d \in DocIds |-> FALSE]
    /\ pc = "start"
    /\ ip = NoItemPhase
    /\ th = NoClient
    /\ fe = NoSearch
    /\ mh = NoHeaderCall
    /\ sv = NoSave
    /\ bk = NoBulk
    /\ rn = NoRun
    /\ args = NoArgs
    /\ dataset_state = NoState
    /\ docs = << >>
    /\ page = 0
    /\ pageRows = << >>
    /\ cacheIdx = 0
    /\ doc_index = 0
    /\ marker_cache = CleanMarkerCache
    /\ touched = {}
    /\ sortQueue = << >>
    /\ sortRows = << >>
    /\ summaryStatus = "running"
    /\ runs = 0
    /\ requested = << >>
    /\ hist = NoHistory
    /\ bf = NoBackfill
    /\ srt = NoSortCall
    /\ hk = NoHourKey
    /\ dl = NoDownload
    /\ nf = NoItemLoop
    /\ ls = NoListing

NextCompat == \E w \in CompatWindows : BeginDataset(w)

SpecCompat == InitCompat /\ [][NextCompat]_vars

\* ------------------------------------------- a run over a damaged checkpoint
\* A run that finds the checkpoint path missing, damaged, or written by an
\* earlier run, with or without a listing cache next to it, up to the end of
\* its listing.
InitLoad ==
    /\ catalog \in [1..NumDocs -> DocPool]
    /\ \/ stateFile \in DamagedStates \cup {NoState}
          /\ cacheFile \in {NoCacheFile, OnePageCache(catalog[1])}
       \/ \E w \in RunWindows :
            stateFile = StoredAfterPage(w) /\ cacheFile = OnePageCache(catalog[1])
    /\ monthly = [m \in Months |-> NoFile]
    /\ marker = [m \in Months |-> << >>]
    /\ sortCache = [m \in Months |-> NoSortCache]
    /\ source = [d \in DocIds |-> FALSE]
    /\ pc = "start"
    /\ ip = NoItemPhase
    /\ th = NoClient
    /\ fe = NoSearch
    /\ mh = NoHeaderCall
    /\ args = NoArgs
    /\ dataset_state = NoState
    /\ docs = << >>
    /\ page = 0
    /\ pageRows = << >>
    /\ cacheIdx = 0
    /\ doc_index = 0
    /\ marker_cache = CleanMarkerCache
    /\ touched = {}
    /\ sortQueue = << >>
    /\ sortRows = << >>
    /\ summaryStatus = "running"
    /\ runs = 0
    /\ requested = << >>
    /\ hist = NoHistory
    /\ bf = NoBackfill
    /\ srt = NoSortCall
    /\ hk = NoHourKey
    /\ dl = NoDownload
    /\ nf = NoItemLoop
    /\ ls = NoListing
    /\ rn = NoRun
    /\ bk = NoBulk
    /\ sv = NoSave

NextLoad ==
    \/ \E w \in RunWindows : BeginDataset(w) /\ runs = 0
    \/ \E w \in RunWindows : BeginDatasetRaises(w)
    \/ ArchiveCacheReused
    \/ ListArchivePage
    \/ AppendArchiveDocsCache
    \/ OnPageListed

SpecLoad == InitLoad /\ [][NextLoad]_vars

\* ------------------------------------------- backfill by source fingerprint
\* Cell texts are sequences of characters; "T0", "T1", ... stand for whole
\* timestamps.  A row of the period file is [post, zone]: the postDateTime
\* cell and the one remaining column; a source row has the zone column only
\* (cleaned_csv_row_values drops the postDateTime aliases).
Blank == << >>

RECURSIVE LStrip(_)
LStrip(t) == IF t # << >> /\ Head(t) = " " THEN LStrip(Tail(t)) ELSE t

RECURSIVE RStrip(_)
RStrip(t) == IF t # << >> /\ t[Len(t)] = " " THEN RStrip(SubSeq(t, 1, Len(t) - 1)) ELSE t

\* str.strip()
Strip(t) == RStrip(LStrip(t))

\* add_missing_post_datetime_in_place, line 1198: every column but the post column.
KeyFields == << "zone" >>

\* row_fingerprint: the stripped values of the key fields.
row_fingerprint(values, key_fields) ==
    [i \in 1..Len(key_fields) |-> Strip(values[key_fields[i]])]

Fingerprint(row) == row_fingerprint(row, KeyFields)

\* The metadata value the doc_plan item number i may carry.
PostDatetimeOf(i) == CASE i = 1 -> << "T1" >> [] i = 2 -> << "T2" >> [] i = 3 -> << "T3" >>
                     [] OTHER -> << "T4" >>

\* Source payloads (a doc without rows never enters the doc_plan, lines
\* 1131-1149): one row, two rows of one fingerprint (padded and not), two rows
\* of different fingerprints.
SourcePool ==
    { << [zone |-> << "x" >>] >>,
      << [zone |-> << " ", "x" >>], [zone |-> << "x" >>] >>,
      << [zone |-> << "x" >>], [zone |-> << "y" >>] >> }

FileZones == { << "x", " " >>, << "y" >> }
FilePosts == { Blank, << " " >>, << "T0" >> }
FileRows == [post : FilePosts, zone : FileZones]

DocPlans ==
    UNION { { p \in [1..n -> [post_datetime : {Blank} \cup {PostDatetimeOf(i) : i \in 1..MaxPlan},
                              src : SourcePool]] :
                \A i \in 1..n : p[i].post_datetime \in {Blank, PostDatetimeOf(i)} } :
            n \in 0..MaxPlan }

\* source_fingerprints[fp] after the loop of lines 620-636: the metadata value
\* of each source row carrying fp, in plan order.
RECURSIVE source_fingerprints(_, _)
source_fingerprints(doc_plan, fp) ==
    IF doc_plan = << >> THEN << >>
    ELSE LET item == Head(doc_plan)
             own == SelectSeq(item.src, LAMBDA r : Fingerprint(r) = fp)
         IN [i \in 1..Len(own) |-> item.post_datetime]
            \o source_fingerprints(Tail(doc_plan), fp)

SourceKeys(doc_plan) ==
    UNION { { Fingerprint(doc_plan[k].src[j]) : j \in DOMAIN doc_plan[k].src } :
            k \in DOMAIN doc_plan }

\* Fingerprints carried by more than one source row.
Colliding(doc_plan) ==
    { fp \in SourceKeys(doc_plan) : Len(source_fingerprints(doc_plan, fp)) > 1 }

collision_count(doc_plan) == Cardinality(Colliding(doc_plan))

\* lines 645-653: the level of the collision signal ("none": nothing printed).
collision_severity(doc_plan, overwrite_mode) ==
    IF collision_count(doc_plan) = 0 THEN "none"
    ELSE IF overwrite_mode THEN "ERROR" ELSE "WARN"

\* Faulty variant: colliding fingerprints are skipped in both modes.
ambiguous_in_any_mode(doc_plan, overwrite_mode) == Colliding(doc_plan)

\* Faulty variant: colliding fingerprints are skipped in no mode.
ambiguous_never(doc_plan, overwrite_mode) == {}

\* lines 644 and 654-655: the fingerprints the fill loop skips.
ambiguous(doc_plan, overwrite_mode) ==
    IF overwrite_mode THEN Colliding(doc_plan) ELSE {}

\* Faulty variant: a served source row is not consumed.
pop_rest_keeps_all(available) == available

\* available.pop(): what is left of the list.
pop_rest(available) == SubSeq(available, 1, Len(available) - 1)

\* lines 659-675: the fill loop from row i on; avail is source_fingerprints.
RECURSIVE FillLoop(_, _, _, _)
FillLoop(rows, i, avail, amb) ==
    IF i > Len(rows) THEN rows
    ELSE LET fp == Fingerprint(rows[i])
         IN IF Strip(rows[i].post) # Blank THEN FillLoop(rows, i + 1, avail, amb)
            ELSE IF fp \in amb THEN FillLoop(rows, i + 1, avail, amb)
            ELSE IF fp \notin DOMAIN avail \/ avail[fp] = << >>
            THEN FillLoop(rows, i + 1, avail, amb)
            ELSE LET post_datetime == avail[fp][Len(avail[fp])]
                     rest == [avail EXCEPT ![fp] = pop_rest(@)]
                 IN FillLoop(IF post_datetime # Blank
                             THEN [rows EXCEPT ![i].post = post_datetime] ELSE rows,
                             i + 1, rest, amb)

\* fill_rows_by_source_fingerprint: the rows after the call, the value it
\* returns and the collision signal it printed.
fill_rows_by_source_fingerprint(rows, doc_plan, overwrite_mode) ==
    LET avail == [fp \in SourceKeys(doc_plan) |-> source_fingerprints(doc_plan, fp)]
        out == FillLoop(rows, 1, avail, ambiguous(doc_plan, overwrite_mode))
    IN [rows |-> out,
        cells_filled |-> Cardinality({ i \in DOMAIN rows : out[i].post # rows[i].post }),
        severity |-> collision_severity(doc_plan, overwrite_mode)]

\* The backfill of one period file that has the post column: rowsIn - the
\* rows read from the file; before / rows - the rows handed to and left by
\* fill_rows_by_source_fingerprint.
FileRowSeqs == UNION { [1..n -> FileRows] : n \in 1..MaxFileRows }

BackfillInput(o, p, r) ==
    [phase |-> "loaded", overwrite |-> o, doc_plan |-> p, rowsIn |-> r, before |-> r,
     rows |-> r, cells_filled |-> 0, severity |-> "none"]

InitBackfill ==
    /\ catalog = [i \in 1..NumDocs |-> CHOOSE d \in DocPool : d.docId = "A"]
    /\ stateFile = NoState
    /\ cacheFile = NoCacheFile
    /\ monthly = [m \in Months |-> NoFile]
    /\ marker = [m \in Months |-> << >>]
    /\ sortCache = [m \in Months |-> NoSortCache]
    /\ source = [d \in DocIds |-> FALSE]
    /\ pc = "backfill"
    /\ ip = NoItemPhase
    /\ th = NoClient
    /\ fe = NoSearch
    /\ mh = NoHeaderCall
    /\ sv = NoSave
    /\ bk = NoBulk
    /\ rn = NoRun
    /\ args = NoArgs
    /\ dataset_state = NoState
    /\ docs = << >>
    /\ page = 0
    /\ pageRows = << >>
    /\ cacheIdx = 0
    /\ doc_index = 0
    /\ marker_cache = CleanMarkerCache
    /\ touched = {}
    /\ sortQueue = << >>
    /\ sortRows = << >>
    /\ summaryStatus = "running"
    /\ runs = 0
    /\ requested = << >>
    /\ hist = NoHistory
    /\ \E o \in BOOLEAN, p \in DocPlans, r \in FileRowSeqs : bf = BackfillInput(o, p, r)
    /\ srt = NoSortCall
    /\ hk = NoHourKey
    /\ dl = NoDownload
    /\ nf = NoItemLoop
    /\ ls = NoListing

\* add_missing_post_datetime_in_place, lines 1078-1104: add-missing mode and no
\* blank cell - the fill is not called (the rows are only re-sorted).
BackfillNoMissingRows ==
    /\ bf.phase = "loaded"
    /\ ~bf.overwrite
    /\ \A i \in DOMAIN bf.rowsIn : Strip(bf.rowsIn[i].post) # Blank
    /\ bf' = [bf EXCEPT !.phase = "no_missing_rows"]
    /\ UNCHANGED << pipelineVars, srt, hk, dl, nf, ls, rn, bk, sv, mh, fe, th, ip >>

\* add_missing_post_datetime_in_place, lines 1164-1166 and 1198-1206: overwrite
\* mode clears every post cell, then fill_rows_by_source_fingerprint runs.
FillRowsBySourceFingerprint ==
    /\ bf.phase = "loaded"
    /\ bf.overwrite \/ \E i \in DOMAIN bf.rowsIn : Strip(bf.rowsIn[i].post) = Blank
    /\ LET cleared == IF bf.overwrite
                      THEN [i \in DOMAIN bf.rowsIn |-> [bf.rowsIn[i] EXCEPT !.post = Blank]]
                      ELSE bf.rowsIn
           out == fill_rows_by_source_fingerprint(cleared, bf.doc_plan, bf.overwrite)
       IN bf' = [bf EXCEPT !.phase = "filled", !.before = cleared, !.rows = out.rows,
                           !.cells_filled = out.cells_filled, !.severity = out.severity]
    /\ UNCHANGED << pipelineVars, srt, hk, dl, nf, ls, rn, bk, sv, mh, fe, th, ip >>

NextBackfill == BackfillNoMissingRows \/ FillRowsBySourceFingerprint

SpecBackfill == InitBackfill /\ [][NextBackfill]_vars

\* ------------------------------------------- the sort engine, stand-alone
\* One period file, its Sort Cache record, and the calls that touch them:
\* sort_monthly_csv under any order and strategy, an append by the
\* downloader, and at the end a dry run of the backfill.
MaxSortRows == 3
MaxSortOps == 2

SortRowPool == { << "a", 2, 0 >>, << "e", 1, 2 >>, << "c", 0, 1 >>, << "u", 0, 0 >> }
AppendedRow == << "n", 1, 3 >>
SortOrders == {"ascending", "descending"}
SortStrategies == {"auto", "timestamp", "postdatetime"}

SortRowSeqs ==
    { r \in UNION { [1..n -> SortRowPool] : n \in 0..MaxSortRows } :
        \A i, j \in DOMAIN r : i # j => r[i] # r[j] }

\* A record left by a release with another cache version.
OldVersionCache(file) ==
    [monthly_sort_cache_payload("ascending", "auto", "sorted", Signature(file))
        EXCEPT !.version = 0]

\* Nothing of the pipeline run is under way.
PipelineAtRest ==
    /\ stateFile = NoState
    /\ cacheFile = NoCacheFile
    /\ monthly = [m \in Months |-> NoFile]
    /\ marker = [m \in Months |-> << >>]
    /\ sortCache = [m \in Months |-> NoSortCache]
    /\ source = [d \in DocIds |-> FALSE]
    /\ args = NoArgs
    /\ dataset_state = NoState
    /\ docs = << >>
    /\ page = 0
    /\ pageRows = << >>
    /\ cacheIdx = 0
    /\ doc_index = 0
    /\ marker_cache = CleanMarkerCache
    /\ touched = {}
    /\ sortQueue = << >>
    /\ sortRows = << >>
    /\ summaryStatus = "running"
    /\ runs = 0
    /\ requested = << >>
    /\ hist = NoHistory

PipelineIdle ==
    /\ catalog = [i \in 1..NumDocs |-> CHOOSE d \in DocPool : d.docId = "A"]
    /\ PipelineAtRest

SortCallState(file, header, cache) ==
    [phase |-> "ready", file |-> file, header |-> header, cache |-> cache, ops |-> 0,
     last |-> NoSortOp, prev |-> NoSortOp]

InitSort ==
    /\ PipelineIdle
    /\ pc = "sort_alone"
    /\ ip = NoItemPhase
    /\ th = NoClient
    /\ fe = NoSearch
    /\ mh = NoHeaderCall
    /\ sv = NoSave
    /\ bk = NoBulk
    /\ rn = NoRun
    /\ bf = NoBackfill
    /\ hk = NoHourKey
    /\ dl = NoDownload
    /\ nf = NoItemLoop
    /\ ls = NoListing
    /\ \E rows \in SortRowSeqs, header \in {"none", "legacy"}, old \in BOOLEAN :
         /\ header = "none" => rows = << >>
         /\ LET file == [exists |-> TRUE, rows |-> rows, mtime |-> 1]
            IN srt = SortCallState(file, header, IF old THEN OldVersionCache(file) ELSE NoSortCache)

SortOp(op, sort_order, sort_strategy, result, scanned, read) ==
    [op |-> op, sort_order |-> sort_order, sort_strategy |-> sort_strategy,
     before |-> srt.file, cache_before |-> srt.cache, result |-> result,
     scanned |-> scanned, read |-> read]

\* One call of sort_monthly_csv (main, lines 3163-3182 and --sort-existing-monthly).
SortMonthlyCsvCall ==
    /\ srt.phase = "ready"
    /\ srt.ops < MaxSortOps
    /\ \E sort_order \in SortOrders, sort_strategy \in SortStrategies, cache_write_ok \in BOOLEAN :
         LET out == sort_monthly_csv(srt.file, srt.header, srt.cache, sort_order,
                                     sort_strategy, cache_write_ok)
         IN srt' = [srt EXCEPT !.file = out.file, !.cache = out.cache, !.ops = @ + 1,
                               !.prev = srt.last,
                               !.last = SortOp("sort", sort_order, sort_strategy,
                                               out.result, out.scanned, "")]
    /\ UNCHANGED << pipelineVars, bf, hk, dl, nf, ls, rn, bk, sv, mh, fe, th, ip >>

\* append_doc_to_monthly_csv on the file: the header gains the post column
\* (migrate_monthly_csv_add_post_datetime) and one row is appended.
AppendToSortedFile ==
    /\ srt.phase = "ready"
    /\ srt.ops < MaxSortOps
    /\ Len(srt.file.rows) < MaxSortRows
    /\ \A i \in DOMAIN srt.file.rows : srt.file.rows[i] # AppendedRow
    /\ srt' = [srt EXCEPT !.file = [exists |-> TRUE, rows |-> Append(srt.file.rows, AppendedRow),
                                    mtime |-> srt.file.mtime + 1],
                          !.header = "post", !.ops = @ + 1, !.prev = srt.last,
                          !.last = SortOp("append", "", "", "appended", FALSE, "")]
    /\ UNCHANGED << pipelineVars, bf, hk, dl, nf, ls, rn, bk, sv, mh, fe, th, ip >>

\* add_missing_post_datetime_in_place with dry_run, lines 1069-1225, for a file
\* with rows of which some lack the post value: the fill is chosen and
\* nothing is written.
BackfillChoosesFill ==
    /\ srt.phase = "ready"
    /\ srt.header # "none"
    /\ srt.file.rows # << >>
    /\ \E row_count_mismatch \in BOOLEAN, overwrite_post_datetime \in BOOLEAN :
         LET sort_cache_classification == read_monthly_sort_cache_classification(srt.cache)
             fingerprint == use_fingerprint_fill(row_count_mismatch, overwrite_post_datetime,
                                                 srt.header = "post", sort_cache_classification)
         IN srt' = [srt EXCEPT !.phase = "chosen", !.prev = srt.last,
                               !.last = SortOp("backfill", "", "",
                                               IF fingerprint THEN "fingerprint" ELSE "positional",
                                               FALSE, sort_cache_classification)]
    /\ UNCHANGED << pipelineVars, bf, hk, dl, nf, ls, rn, bk, sv, mh, fe, th, ip >>

NextSort == SortMonthlyCsvCall \/ AppendToSortedFile \/ BackfillChoosesFill

SpecSort == InitSort /\ [][NextSort]_vars

\* -------------------------------------- the date and hour-ending sort key
\* A text is a sequence of characters; a datetime is a number of minutes,
\* day * 1440 + hour * 60 + minute.
MaxHourText == 3
MaxDay == 2

DigitChars == << "0", "1", "2", "3", "4", "5", "6", "7", "8", "9" >>
HourChars == Range(DigitChars) \cup {":", " "}

IsDigit(ch) == ch \in Range(DigitChars)
DigitValue(ch) == (CHOOSE i \in DOMAIN DigitChars : DigitChars[i] = ch) - 1

\* int() of a text of digits
RECURSIVE IntOf(_)
IntOf(digits) ==
    IF digits = << >> THEN 0
    ELSE IntOf(SubSeq(digits, 1, Len(digits) - 1)) * 10 + DigitValue(digits[Len(digits)])

\* raw.split(":", 1)[0]
BeforeColon(raw) ==
    IF \E i \in DOMAIN raw : raw[i] = ":"
    THEN SubSeq(raw, 1, (CHOOSE i \in DOMAIN raw :
                            raw[i] = ":" /\ \A j \in 1..(i - 1) : raw[j] # ":") - 1)
    ELSE raw

NoHour == << >>

\* Faulty variant: hour-ending 24 becomes hour 0 of the same date.
parse_hour_ending_cached_wraps(raw) ==
    LET left == SelectSeq(BeforeColon(raw), IsDigit)
    IN IF left = << >> THEN NoHour
       ELSE IF IntOf(left) > 24 THEN NoHour
       ELSE IF IntOf(left) = 24 THEN << 0, 0 >>
       ELSE << IntOf(left), 0 >>

\* _parse_hour_ending_cached; NoHour stands for None.
parse_hour_ending_cached(raw) ==
    LET left == SelectSeq(BeforeColon(raw), IsDigit)
    IN IF left = << >> THEN NoHour
       ELSE LET hour == IntOf(left)
            IN IF hour < 0 \/ hour > 24 THEN NoHour
               ELSE IF hour = 24 THEN << 23, 59 >>
               ELSE << hour, 0 >>

\* _parse_hour_ending
parse_hour_ending(value) ==
    LET raw == Strip(value)
    IN IF raw = << >> THEN NoHour ELSE parse_hour_ending_cached(raw)

\* datetime.replace(hour=, minute=) on the midnight of a date
DayAt(day, hour, minute) == day * 1440 + hour * 60 + minute

\* None: the row has no timestamp
NoTimestamp == -1

\* _csv_row_timestamp, lines 1587-1599, for a row whose only time columns are
\* a date and an hour-ending column; NoTimestamp stands for None.
csv_row_timestamp(day, hour_text) ==
    LET hm == parse_hour_ending(hour_text)
    IN IF hm = NoHour THEN NoTimestamp ELSE DayAt(day, hm[1], hm[2])

\* The hour-ending texts: short texts, with or without a ":00" tail.
TextsUpTo(n) == UNION { [1..k -> HourChars] : k \in 1..n }

HourTexts == TextsUpTo(MaxHourText) \cup { t \o << ":", "0", "0" >> : t \in TextsUpTo(MaxHourText) }

InitHourKey ==
    /\ PipelineIdle
    /\ pc = "hour_key"
    /\ ip = NoItemPhase
    /\ th = NoClient
    /\ fe = NoSearch
    /\ mh = NoHeaderCall
    /\ sv = NoSave
    /\ bk = NoBulk
    /\ rn = NoRun
    /\ bf = NoBackfill
    /\ srt = NoSortCall
    /\ dl = NoDownload
    /\ nf = NoItemLoop
    /\ ls = NoListing
    /\ \E day \in 1..MaxDay, raw \in HourTexts :
         hk = [phase |-> "row", day |-> day, raw |-> raw, key |-> NoTimestamp]

\* _csv_row_timestamp on the row.
CsvRowTimestamp ==
    /\ hk.phase = "row"
    /\ hk' = [hk EXCEPT !.phase = "keyed", !.key = csv_row_timestamp(hk.day, hk.raw)]
    /\ UNCHANGED << pipelineVars, bf, srt, dl, nf, ls, rn, bk, sv, mh, fe, th, ip >>

NextHourKey == CsvRowTimestamp

SpecHourKey == InitHourKey /\ [][NextHourKey]_vars

\* ------------------------------------------------------------ download_doc
\* One call of ErcotPublicReportsClient.download_doc: the candidates of
\* build_download_candidates by their position in the list, the final
\* response _request obtains for each, and the two files the call touches.
\* build_download_candidates, lines 1204-1207: the three fallback candidates
\* are always in the list (line 1035 of download_doc is never reached).
MinCandidates == 3
MaxCandidates == 4
MaxChunks == 2

Absent == << "absent" >>
OldBody == << "old" >>

\* The response body of a candidate, as the chunks iter_content yields.
BodyOf(candidate, chunks) == [k \in 1..chunks |-> << candidate, k >>]

\* The status _request ends with: 200, or the status of the HTTPError that
\* raise_for_status raises.
Statuses == {200, 400, 403, 404, 429, 500, 501, 502, 503, 504}

\* download_doc, line 1032
FallbackStatuses == {400, 404, 429, 500, 502, 503, 504}

\* Faulty variant: the last candidate is not told apart.
tries_next_candidate_even_last(status, index, count) == status \in FallbackStatuses

\* download_doc, lines 1032-1034: continue (TRUE) or raise (FALSE); index
\* counts the candidates from 1.
tries_next_candidate(status, index, count) ==
    status \in FallbackStatuses /\ index < count

\* Faulty variant: the response is streamed into the destination itself.
tmp_path_is_destination(destination) == destination

\* download_doc, line 1014: the sibling file that receives the stream.
tmp_path(destination) == "part"

InitDownload ==
    /\ PipelineIdle
    /\ pc = "download_doc"
    /\ ip = NoItemPhase
    /\ th = NoClient
    /\ fe = NoSearch
    /\ mh = NoHeaderCall
    /\ sv = NoSave
    /\ bk = NoBulk
    /\ rn = NoRun
    /\ bf = NoBackfill
    /\ srt = NoSortCall
    /\ hk = NoHourKey
    /\ nf = NoItemLoop
    /\ ls = NoListing
    /\ \E count \in MinCandidates..MaxCandidates, chunks \in 1..MaxChunks, held \in {Absent, OldBody} :
         dl = [phase |-> "loop", count |-> count, chunks |-> chunks, index |-> 1,
               files |-> [f \in {"destination", "part"} |->
                            IF f = "destination" THEN held ELSE Absent],
               before |-> held, requested |-> << >>, error |-> 0, killed |-> FALSE]

\* download_doc, lines 1015-1023 and 1029-1035: one candidate is requested;
\* on success the temporary file is opened (truncated), on an HTTP error the
\* loop goes on or the error is raised.
RequestCandidate ==
    /\ dl.phase = "loop"
    /\ ~dl.killed
    /\ dl.index <= dl.count
    /\ \E status \in Statuses :
         LET asked == Append(dl.requested, [index |-> dl.index, status |-> status])
         IN IF status = 200
            THEN dl' = [dl EXCEPT !.requested = asked, !.phase = "streaming",
                                  !.files[tmp_path("destination")] = << >>]
            ELSE IF tries_next_candidate(status, dl.index, dl.count)
            THEN dl' = [dl EXCEPT !.requested = asked, !.index = @ + 1]
            ELSE dl' = [dl EXCEPT !.requested = asked, !.phase = "raised", !.error = status]
    /\ UNCHANGED << pipelineVars, bf, srt, hk, nf, ls, rn, bk, sv, mh, fe, th, ip >>

Streamed == dl.files[tmp_path("destination")]

\* download_doc, lines 1024-1026: one chunk reaches the temporary file.
WriteChunk ==
    /\ dl.phase = "streaming"
    /\ ~dl.killed
    /\ Len(Streamed) < dl.chunks
    /\ dl' = [dl EXCEPT !.files[tmp_path("destination")] =
                            Append(@, BodyOf(dl.index, dl.chunks)[Len(@) + 1])]
    /\ UNCHANGED << pipelineVars, bf, srt, hk, nf, ls, rn, bk, sv, mh, fe, th, ip >>

\* download_doc, line 1024: the connection breaks mid-stream; the exception
\* is no HTTPError and leaves the call.
StreamBreaks ==
    /\ dl.phase = "streaming"
    /\ ~dl.killed
    /\ Len(Streamed) < dl.chunks
    /\ dl' = [dl EXCEPT !.phase = "raised", !.error = -2]
    /\ UNCHANGED << pipelineVars, bf, srt, hk, nf, ls, rn, bk, sv, mh, fe, th, ip >>

\* download_doc, lines 1027-1028: tmp_path.replace(destination), return.
ReplaceDestination ==
    /\ dl.phase = "streaming"
    /\ ~dl.killed
    /\ Len(Streamed) = dl.chunks
    /\ dl' = [dl EXCEPT !.phase = "returned",
                        !.files = IF tmp_path("destination") = "destination" THEN @
                                  ELSE [@ EXCEPT !["destination"] = Streamed,
                                                 !["part"] = Absent]]
    /\ UNCHANGED << pipelineVars, bf, srt, hk, nf, ls, rn, bk, sv, mh, fe, th, ip >>

\* The process is killed during the call.
KillDownload ==
    /\ dl.phase \in {"loop", "streaming"}
    /\ ~dl.killed
    /\ dl' = [dl EXCEPT !.killed = TRUE]
    /\ UNCHANGED << pipelineVars, bf, srt, hk, nf, ls, rn, bk, sv, mh, fe, th, ip >>

NextDownload ==
    \/ RequestCandidate
    \/ WriteChunk
    \/ StreamBreaks
    \/ ReplaceDestination
    \/ KillDownload

SpecDownload == InitDownload /\ [][NextDownload]_vars

\* ------------------------------------- the item loop under download failures
\* main, lines 2396 and 2830-2987: what one pass of the item loop does to
\* consecutive_network_failures, by the outcome of the item.  "skip" is an
\* item left without a download attempt (no identifier, already consolidated,
\* file present, dry run); "ok" one fetched and processed; "dns" one whose
\* exception is_name_resolution_failure recognises; "other" any other failure.
MaxItems == 4
MaxThreshold == 2

ItemOutcomes == {"skip", "ok", "dns", "other"}

\* Faulty variant: a failure of another kind leaves the count as it is.
count_after_failure_no_reset(count, name_resolution) ==
    IF name_resolution THEN count + 1 ELSE count

\* main, lines 2970-2984: consecutive_network_failures after a failed item.
count_after_failure(count, name_resolution) ==
    IF name_resolution THEN count + 1 ELSE 0

\* main, lines 2974-2977: the condition of raise SystemExit.
stops_run(max_consecutive_network_failures, count) ==
    max_consecutive_network_failures > 0 /\ count >= max_consecutive_network_failures

InitItemLoop ==
    /\ PipelineIdle
    /\ pc = "item_loop"
    /\ ip = NoItemPhase
    /\ th = NoClient
    /\ fe = NoSearch
    /\ mh = NoHeaderCall
    /\ sv = NoSave
    /\ bk = NoBulk
    /\ rn = NoRun
    /\ bf = NoBackfill
    /\ srt = NoSortCall
    /\ hk = NoHourKey
    /\ dl = NoDownload
    /\ ls = NoListing
    /\ \E threshold \in 0..MaxThreshold :
         nf = [phase |-> "loop", max_consecutive_network_failures |-> threshold,
               consecutive_network_failures |-> 0, failures |-> 0, checkpointed |-> 0,
               outcomes |-> << >>]

ItemsLeft == nf.phase = "loop" /\ Len(nf.outcomes) < MaxItems

\* main, lines 2835-2845, 2858-2873, 2879-2921: the item is passed over.
ItemSkipped ==
    /\ ItemsLeft
    /\ nf' = [nf EXCEPT !.outcomes = Append(@, "skip"), !.checkpointed = @ + 1]
    /\ UNCHANGED << pipelineVars, bf, srt, hk, dl, ls, rn, bk, sv, mh, fe, th, ip >>

\* main, lines 2922-2952 and 2987: the item is fetched and processed.
ItemProcessed ==
    /\ ItemsLeft
    /\ nf' = [nf EXCEPT !.outcomes = Append(@, "ok"), !.checkpointed = @ + 1,
                        !.consecutive_network_failures = 0]
    /\ UNCHANGED << pipelineVars, bf, srt, hk, dl, ls, rn, bk, sv, mh, fe, th, ip >>

\* main, lines 2953-2985: the item fails; the failure is recorded, the count
\* is updated and the run goes on or stops.
ItemFails ==
    /\ ItemsLeft
    /\ \E name_resolution \in BOOLEAN :
         LET count == count_after_failure(nf.consecutive_network_failures, name_resolution)
         IN nf' = [nf EXCEPT !.outcomes = Append(@, IF name_resolution THEN "dns" ELSE "other"),
                             !.failures = @ + 1,
                             !.consecutive_network_failures = count,
                             !.phase = IF name_resolution
                                          /\ stops_run(nf.max_consecutive_network_failures, count)
                                       THEN "stopped" ELSE "loop"]
    /\ UNCHANGED << pipelineVars, bf, srt, hk, dl, ls, rn, bk, sv, mh, fe, th, ip >>

NextItemLoop == ItemSkipped \/ ItemProcessed \/ ItemFails

SpecItemLoop == InitItemLoop /\ [][NextItemLoop]_vars

\* -------------------------------------------- list_archive_docs_with_retries
\* One call of list_archive_docs_with_retries against a catalog of distinct
\* items, request by request: the remote answers a request with the rows of
\* the page, with HTTP 429 (and a Retry-After hint), or with another error.
MaxListingRetries == 2
MaxListed == 5

\* The i-th item of the remote listing; the lister only looks at its position.
ListedDoc(i) == [docId |-> i, month |-> 1, rows |-> << >>]

CatalogOfLength(n) == [i \in 1..n |-> ListedDoc(i)]

\* Retry-After of a 429, and the configured base of the backoff: the hint is
\* the longer one before the first retry, the backoff before the later ones.
RetryHints == {0, 7}
RetrySleepSeconds == {3}

RECURSIVE Pow2(_)
Pow2(n) == IF n = 0 THEN 1 ELSE 2 * Pow2(n - 1)

\* Faulty variant: the server's hint is not taken into account.
cooldown_seconds_without_hint(retry_after, retry_sleep_seconds, listing_attempt) ==
    retry_sleep_seconds * Pow2(listing_attempt)

\* list_archive_docs_with_retries, lines 1288-1291
cooldown_seconds(retry_after, retry_sleep_seconds, listing_attempt) ==
    Max(retry_after, retry_sleep_seconds * Pow2(listing_attempt))

\* Faulty variant: only an empty page ends the listing.
ends_listing_on_empty_only(rows, page_size) == rows = << >>

\* list_archive_docs_with_retries, lines 1304-1305 and 1323-1324: the breaks.
ends_listing(rows, page_size) == rows = << >> \/ Len(rows) < page_size

\* The docs the cache holds for the pages below start_page.
RECURSIVE SeedDocs(_, _)
SeedDocs(start_page, page_size) ==
    IF start_page <= 1 THEN << >>
    ELSE LET p == start_page - 1
             rows == list_archive_page(p, page_size)
         IN SeedDocs(p, page_size) \o [i \in 1..Len(rows) |-> Tagged(rows[i], p)]

InitLister ==
    /\ PipelineAtRest
    /\ pc = "lister"
    /\ ip = NoItemPhase
    /\ th = NoClient
    /\ fe = NoSearch
    /\ mh = NoHeaderCall
    /\ sv = NoSave
    /\ bk = NoBulk
    /\ rn = NoRun
    /\ bf = NoBackfill
    /\ srt = NoSortCall
    /\ hk = NoHourKey
    /\ dl = NoDownload
    /\ nf = NoItemLoop
    /\ \E n \in 0..MaxListed : catalog = CatalogOfLength(n)
    /\ \E page_size \in PageSizes, start_page \in 1..2,
          archive_listing_retries \in 0..MaxListingRetries,
          retry_sleep_seconds \in RetrySleepSeconds :
         /\ (start_page - 1) * page_size <= Len(catalog)
         /\ ls = [phase |-> "listing", page_size |-> page_size, start_page |-> start_page,
                  archive_listing_retries |-> archive_listing_retries,
                  retry_sleep_seconds |-> retry_sleep_seconds,
                  seed_docs |-> SeedDocs(start_page, page_size),
                  docs |-> SeedDocs(start_page, page_size),
                  page |-> Max(1, start_page), listing_attempt |-> 0,
                  requests |-> << >>, cooldowns |-> << >>, error |-> 0]

\* requests: every request of the call; cooldowns: the sleeps made so far
\* for the page being requested, with the server's hint of each.
Request(outcome, rows) == [page |-> ls.page, outcome |-> outcome, rows |-> rows]

\* list_archive_docs_with_retries, lines 1271-1278 and 1304-1325: the page is
\* answered; its rows are tagged and added, and the loop ends or moves on.
PageAnswered ==
    /\ ls.phase = "listing"
    /\ LET rows == list_archive_page(ls.page, ls.page_size)
           tagged_rows == [i \in 1..Len(rows) |-> Tagged(rows[i], ls.page)]
       IN ls' = [ls EXCEPT !.requests = Append(@, Request("rows", tagged_rows)),
                           !.cooldowns = << >>,
                           !.docs = @ \o tagged_rows,
                           !.listing_attempt = 0,
                           !.phase = IF ends_listing(rows, ls.page_size)
                                     THEN "returned" ELSE "listing",
                           !.page = IF ends_listing(rows, ls.page_size) THEN @ ELSE @ + 1]
    /\ UNCHANGED << pipelineVars, bf, srt, hk, dl, nf, rn, bk, sv, mh, fe, th, ip >>

\* list_archive_docs_with_retries, lines 1279-1302, status 429: sleep and
\* request the page again, or raise when the retries are used up.
PageThrottled ==
    /\ ls.phase = "listing"
    /\ \E retry_after \in RetryHints :
         IF ls.listing_attempt < ls.archive_listing_retries
         THEN LET listing_attempt == ls.listing_attempt + 1
              IN ls' = [ls EXCEPT !.listing_attempt = listing_attempt,
                                  !.requests = Append(@, Request("429", << >>)),
                                  !.cooldowns = Append(@,
                                      [retry_after |-> retry_after,
                                       seconds |-> cooldown_seconds(retry_after,
                                                       ls.retry_sleep_seconds, listing_attempt)])]
         ELSE ls' = [ls EXCEPT !.requests = Append(@, Request("429", << >>)),
                               !.phase = "raised", !.error = 429]
    /\ UNCHANGED << pipelineVars, bf, srt, hk, dl, nf, rn, bk, sv, mh, fe, th, ip >>

\* list_archive_docs_with_retries, line 1302, and exceptions that are no
\* HTTPError: any other failure of the request leaves the call.
PageFails ==
    /\ ls.phase = "listing"
    /\ ls' = [ls EXCEPT !.requests = Append(@, Request("error", << >>)),
                        !.phase = "raised", !.error = 500]
    /\ UNCHANGED << pipelineVars, bf, srt, hk, dl, nf, rn, bk, sv, mh, fe, th, ip >>

NextLister == PageAnswered \/ PageThrottled \/ PageFails

SpecLister == InitLister /\ [][NextLister]_vars

\* ------------------------------------------------ main over several datasets
\* One run of main over the selected datasets, with resume state and monthly
\* consolidation on, page size 1 and nothing on disk at the start.  Dataset d
\* lists remote[d] items; the item of page p is item p.  A listing request is
\* answered with rows, with an HTTP error that list_archive_docs_with_retries
\* lets out, or with a body coerce_list rejects; a payload has rows, is
\* zero-byte, or cannot be read.
MaxDatasets == 2
MaxDatasetPages == 2

PayloadKinds == {"rows", "zero_byte", "unreadable"}
ListingErrors == {"http_error", "bad_shape"}

DatasetAtStart ==
    [summary |-> "none", status |-> "none", last_listed_page |-> 0,
     listing_complete |-> FALSE, cache |-> << >>, requests |-> << >>,
     items |-> << >>, merged |-> << >>, marker |-> << >>, at_failure |-> << >>]

\* Faulty variant: a listing failure ends the loop over the datasets.
dataset_after_listing_failure_break(dataset, count) == count + 1

\* main, line 2582: continue - the loop takes the next dataset.
dataset_after_listing_failure(dataset, count) == dataset + 1

InitDatasets ==
    /\ PipelineIdle
    /\ pc = "datasets"
    /\ ip = NoItemPhase
    /\ th = NoClient
    /\ fe = NoSearch
    /\ mh = NoHeaderCall
    /\ sv = NoSave
    /\ bk = NoBulk
    /\ bf = NoBackfill
    /\ srt = NoSortCall
    /\ hk = NoHourKey
    /\ dl = NoDownload
    /\ nf = NoItemLoop
    /\ ls = NoListing
    /\ \E count \in 2..MaxDatasets :
       \E remote \in [1..count -> 0..MaxDatasetPages],
          payload \in [1..MaxDatasetPages -> PayloadKinds] :
         rn = [phase |-> "dataset_start", count |-> count, remote |-> remote,
               payload |-> payload, dataset |-> 1, page |-> 1, doc_index |-> 0,
               of |-> [d \in 1..count |-> DatasetAtStart], failures |-> << >>]

Cur == rn.of[rn.dataset]

\* main, lines 2398-2526: the next dataset starts; its checkpoint is saved.
DatasetStart ==
    /\ rn.phase = "dataset_start"
    /\ IF rn.dataset > rn.count
       THEN rn' = [rn EXCEPT !.phase = "finished"]
       ELSE rn' = [rn EXCEPT !.phase = "listing", !.page = 1, !.doc_index = 0,
                             !.of[rn.dataset].summary = "running",
                             !.of[rn.dataset].status = "running"]
    /\ UNCHANGED << pipelineVars, bf, srt, hk, dl, nf, ls, bk, sv, mh, fe, th, ip >>

\* list_archive_docs_with_retries with on_page_listed (lines 2543-2551): a page
\* with rows goes to the cache and the checkpoint; an empty page (page size 1:
\* there is no short page) ends the listing, lines 2583-2600.
DatasetPageListed ==
    /\ rn.phase = "listing"
    /\ LET d == rn.dataset
           has_rows == rn.page <= rn.remote[d]
           request == [page |-> rn.page, outcome |-> IF has_rows THEN "rows" ELSE "empty"]
       IN IF has_rows
          THEN rn' = [rn EXCEPT !.of[d].requests = Append(@, request),
                                !.of[d].cache = Append(@, rn.page),
                                !.of[d].last_listed_page = rn.page,
                                !.page = @ + 1]
          ELSE IF Cur.cache = << >>
          THEN rn' = [rn EXCEPT !.of[d].requests = Append(@, request),
                                !.of[d].listing_complete = TRUE,
                                !.of[d].summary = "no_docs_in_window",
                                !.of[d].status = "completed",
                                !.phase = "dataset_start",
                                !.dataset = @ + 1]
          ELSE rn' = [rn EXCEPT !.of[d].requests = Append(@, request),
                                !.of[d].listing_complete = TRUE,
                                !.phase = "items"]
    /\ UNCHANGED << pipelineVars, bf, srt, hk, dl, nf, ls, bk, sv, mh, fe, th, ip >>

\* main, lines 2568-2582: the listing raised (an HTTP error after the retries,
\* or coerce_list's RuntimeError, which the lister does not catch).
DatasetListingFails ==
    /\ rn.phase = "listing"
    /\ \E error \in ListingErrors :
         LET d == rn.dataset
         IN rn' = [rn EXCEPT !.of[d].requests = Append(@, [page |-> rn.page, outcome |-> error]),
                             !.of[d].at_failure = << [cache |-> Cur.cache,
                                                      last_listed_page |-> Cur.last_listed_page] >>,
                             !.of[d].summary = "archive_listing_failed",
                             !.of[d].status = "failed",
                             !.failures = Append(@, [dataset |-> d, stage |-> "archive-listing",
                                                     page |-> Cur.last_listed_page]),
                             !.phase = "dataset_start",
                             !.dataset = dataset_after_listing_failure(d, rn.count)]
    /\ UNCHANGED << pipelineVars, bf, srt, hk, dl, nf, ls, bk, sv, mh, fe, th, ip >>

\* main, lines 2922-2987: one item is downloaded and consolidated.  A payload
\* that cannot be read raises in append_doc_to_monthly_csv; a zero-byte one
\* makes it return 0 (line 659), and the item is marked like any other.
DatasetItem ==
    /\ rn.phase = "items"
    /\ rn.doc_index < Len(Cur.cache)
    /\ LET d == rn.dataset
           doc == Cur.cache[rn.doc_index + 1]
           kind == rn.payload[doc]
           appended_rows == IF kind = "rows" THEN 1 ELSE 0
           failed == kind = "unreadable"
       IN IF failed
          THEN rn' = [rn EXCEPT !.of[d].items = Append(@, [doc |-> doc, outcome |-> "failed"]),
                                !.of[d].summary = "running_with_failures",
                                !.of[d].status = "running_with_failures",
                                !.failures = Append(@, [dataset |-> d, stage |-> "download",
                                                        page |-> doc]),
                                !.doc_index = @ + 1]
          ELSE rn' = [rn EXCEPT !.of[d].items = Append(@, [doc |-> doc, outcome |-> "done"]),
                                !.of[d].merged = IF appended_rows > 0 THEN Append(@, doc) ELSE @,
                                !.of[d].marker = Append(@, doc),
                                !.doc_index = @ + 1]
    /\ UNCHANGED << pipelineVars, bf, srt, hk, dl, nf, ls, bk, sv, mh, fe, th, ip >>

\* main, lines 3216-3220: the dataset ends; the loop takes the next one.
DatasetEnds ==
    /\ rn.phase = "items"
    /\ rn.doc_index = Len(Cur.cache)
    /\ LET d == rn.dataset
           status == IF Cur.summary = "running" THEN "completed" ELSE Cur.summary
       IN rn' = [rn EXCEPT !.of[d].summary = status, !.of[d].status = status,
                           !.phase = "dataset_start", !.dataset = @ + 1]
    /\ UNCHANGED << pipelineVars, bf, srt, hk, dl, nf, ls, bk, sv, mh, fe, th, ip >>

NextDatasets ==
    DatasetStart \/ DatasetPageListed \/ DatasetListingFails \/ DatasetItem \/ DatasetEnds

SpecDatasets == InitDatasets /\ [][NextDatasets]_vars

\* ------------------------------------------------------------- bulk fetch
\* The bulk fetch of a list of items, as main does it (strict download_docs,
\* lines 2646-2830) and as the backfill's bulk_fetch_source_texts does it
\* (lenient).  Items are numbered 1..n in list order and the identifier of
\* item i is i.  The outer ZIP of a response holds one container per file
\* name << identifier, extension >>; a container unzips to one file, to no
\* file, to several files, or not at all.
MaxBulkDocs == 301
MaxBulkChunks == 3

BULK_DOWNLOAD_CHUNK_SIZE == 256

\* parse_bulk_chunk_size and main, lines 2293-2298: the values accepted.
parse_bulk_chunk_size(value) == value >= 1 /\ value <= 2048

BulkDocCounts == (0..3) \cup {257, MaxBulkDocs}
BulkChunkSizes == {1, 2, BULK_DOWNLOAD_CHUNK_SIZE, 300}

ResponseKinds == {"complete", "short", "extra", "broken_inner", "empty_inner",
                  "two_files", "http_error"}

Container(doc_id, inner) == [file_name |-> << doc_id, "zip" >>, inner |-> inner]

\* The outer ZIP the remote answers a request with.
ResponseOf(doc_ids, kind) ==
    LET whole == [i \in 1..Len(doc_ids) |-> Container(doc_ids[i], "one")]
        first_as(inner) == [whole EXCEPT ![1] = Container(doc_ids[1], inner)]
    IN CASE kind = "short" -> Tail(whole)
         [] kind = "extra" -> Append(whole, Container(0, "one"))
         [] kind = "broken_inner" -> first_as("broken")
         [] kind = "empty_inner" -> first_as("none")
         [] kind = "two_files" -> first_as("many")
         [] OTHER -> whole

\* download_docs, line 1064: filename.split(".", 1)[0]
doc_id_of(file_name) == file_name[1]

\* download_docs, lines 1063-1080: the loop over the containers.  Strict: the
\* first container that cannot be unzipped or does not hold exactly one file
\* raises.  Lenient: such a container is passed over, except that of several
\* files the first is taken.  ret is the set of identifiers the returned map
\* has a payload for.
unwrap_containers(unzipped, strict_count) ==
    IF strict_count /\ \E i \in DOMAIN unzipped : unzipped[i].inner # "one"
    THEN [raised |-> TRUE, ret |-> {}]
    ELSE [raised |-> FALSE,
          ret |-> { doc_id_of(unzipped[i].file_name) :
                      i \in { j \in DOMAIN unzipped : unzipped[j].inner \in {"one", "many"} } }]

\* Faulty variant: the container count is never compared.
download_docs_no_count_check(doc_ids, kind, strict_count) ==
    IF kind = "http_error" THEN [raised |-> TRUE, ret |-> {}]
    ELSE unwrap_containers(ResponseOf(doc_ids, kind), strict_count)

\* download_docs: the request raises, or the outer ZIP is unwrapped.
download_docs(doc_ids, kind, strict_count) ==
    IF kind = "http_error" THEN [raised |-> TRUE, ret |-> {}]
    ELSE LET unzipped == ResponseOf(doc_ids, kind)
         IN IF strict_count /\ Len(unzipped) # Len(doc_ids)
            THEN [raised |-> TRUE, ret |-> {}]
            ELSE unwrap_containers(unzipped, strict_count)

\* main, line 2652, and bulk_fetch_source_texts, lines 401-402: the slices
\* docs[i : i + chunk_size] for i in range(first, count, chunk_size).
doc_chunks(count, first, chunk_size) ==
    [k \in 1..((count - first + chunk_size - 1) \div chunk_size) |->
        [i \in 1..Min(chunk_size, count - first - (k - 1) * chunk_size) |->
            first + (k - 1) * chunk_size + i]]

\* main, lines 2672-2697: the identifiers of a chunk that are still to fetch.
chunk_doc_ids(doc_chunk, known) == SelectSeq(doc_chunk, LAMBDA id : id \notin known)

InitBulk ==
    /\ PipelineIdle
    /\ pc = "bulk"
    /\ ip = NoItemPhase
    /\ th = NoClient
    /\ fe = NoSearch
    /\ mh = NoHeaderCall
    /\ sv = NoSave
    /\ bf = NoBackfill
    /\ srt = NoSortCall
    /\ hk = NoHourKey
    /\ dl = NoDownload
    /\ nf = NoItemLoop
    /\ ls = NoListing
    /\ rn = NoRun
    /\ \E caller \in {"main", "backfill"}, count \in BulkDocCounts,
          chunk_size \in BulkChunkSizes, first \in 0..1, known \in SUBSET (1..2) :
         /\ parse_bulk_chunk_size(chunk_size)
         /\ first <= count
         /\ known \subseteq (first + 1)..count
         /\ caller = "backfill" => first = 0 /\ known = {}
         /\ Len(doc_chunks(count, first, chunk_size)) <= MaxBulkChunks
         /\ bk = [phase |-> "chunks", caller |-> caller, count |-> count, first |-> first,
                  chunk_size |-> chunk_size, known |-> known,
                  doc_chunks |-> doc_chunks(count, first, chunk_size),
                  chunk_id |-> 1, requests |-> << >>, result |-> {}]

ChunksLeft == bk.phase = "chunks" /\ bk.chunk_id <= Len(bk.doc_chunks)

\* main, lines 2698-2714: a chunk with nothing to fetch sends no request.
BulkChunkSkipped ==
    /\ ChunksLeft
    /\ bk.caller = "main"
    /\ chunk_doc_ids(bk.doc_chunks[bk.chunk_id], bk.known) = << >>
    /\ bk' = [bk EXCEPT !.chunk_id = @ + 1]
    /\ UNCHANGED << pipelineVars, bf, srt, hk, dl, nf, ls, rn, sv, mh, fe, th, ip >>

\* main, lines 2722-2820: one strict download_docs call; an error disables
\* the bulk path (break).
BulkChunkStrict ==
    /\ ChunksLeft
    /\ bk.caller = "main"
    /\ LET ids == chunk_doc_ids(bk.doc_chunks[bk.chunk_id], bk.known)
       IN /\ ids # << >>
          /\ \E kind \in ResponseKinds :
               LET got == download_docs(ids, kind, TRUE)
                   request == [chunk_id |-> bk.chunk_id, doc_ids |-> ids, kind |-> kind,
                               strict_count |-> TRUE, raised |-> got.raised, ret |-> got.ret]
               IN bk' = [bk EXCEPT !.requests = Append(@, request),
                                   !.result = @ \cup (got.ret \cap Range(ids)),
                                   !.chunk_id = @ + 1,
                                   !.phase = IF got.raised THEN "bulk_disabled" ELSE @]
    /\ UNCHANGED << pipelineVars, bf, srt, hk, dl, nf, ls, rn, sv, mh, fe, th, ip >>

\* bulk_fetch_source_texts, lines 401-413: one lenient download_docs call; an
\* error skips the chunk.
BulkChunkLenient ==
    /\ ChunksLeft
    /\ bk.caller = "backfill"
    /\ LET ids == bk.doc_chunks[bk.chunk_id]
       IN \E kind \in ResponseKinds :
            LET got == download_docs(ids, kind, FALSE)
                request == [chunk_id |-> bk.chunk_id, doc_ids |-> ids, kind |-> kind,
                            strict_count |-> FALSE, raised |-> got.raised, ret |-> got.ret]
            IN bk' = [bk EXCEPT !.requests = Append(@, request),
                                !.result = @ \cup got.ret,
                                !.chunk_id = @ + 1]
    /\ UNCHANGED << pipelineVars, bf, srt, hk, dl, nf, ls, rn, sv, mh, fe, th, ip >>

\* The loop over the chunks ends.
BulkDone ==
    /\ bk.phase = "chunks"
    /\ bk.chunk_id > Len(bk.doc_chunks)
    /\ bk' = [bk EXCEPT !.phase = "done"]
    /\ UNCHANGED << pipelineVars, bf, srt, hk, dl, nf, ls, rn, sv, mh, fe, th, ip >>

NextBulk == BulkChunkSkipped \/ BulkChunkStrict \/ BulkChunkLenient \/ BulkDone

SpecBulk == InitBulk /\ [][NextBulk]_vars

\* ------------------------------------------------------ save_dataset_state
\* The checkpoint file of a dataset under successive save_dataset_state calls,
\* each of which may be cut short by the death of the process.  A file holds
\* the first `parts` pieces of the JSON text of record number `record`;
\* write_text hands the text to the file piece by piece.  Only the process
\* dies: what it wrote and renamed stays as the operating system has it.
MaxSaves == 3
MaxRecordParts == 3

NoCheckpoint == [exists |-> FALSE, record |-> 0, parts |-> 0]

\* Faulty variant: the text is written straight to the checkpoint path.
state_tmp_path_is_state_path(state_path) == state_path

\* save_dataset_state, line 360: state_path.with_suffix(suffix + ".tmp")
state_tmp_path(state_path) == "tmp"

InitSave ==
    /\ PipelineIdle
    /\ pc = "save_state"
    /\ ip = NoItemPhase
    /\ th = NoClient
    /\ fe = NoSearch
    /\ mh = NoHeaderCall
    /\ bf = NoBackfill
    /\ srt = NoSortCall
    /\ hk = NoHourKey
    /\ dl = NoDownload
    /\ nf = NoItemLoop
    /\ ls = NoListing
    /\ rn = NoRun
    /\ bk = NoBulk
    /\ \E length \in 1..MaxRecordParts :
         sv = [phase |-> "idle", length |-> length, saves |-> 0, kills |-> 0,
               files |-> [state |-> NoCheckpoint, tmp |-> NoCheckpoint],
               previous |-> NoCheckpoint]

\* save_dataset_state, lines 359-362 up to the open of write_text: the
\* temporary file is created or truncated.
SaveOpensTmp ==
    /\ sv.phase = "idle"
    /\ sv.saves < MaxSaves
    /\ sv' = [sv EXCEPT !.phase = "writing", !.saves = @ + 1,
                        !.previous = sv.files.state,
                        !.files[state_tmp_path("state")] =
                            [exists |-> TRUE, record |-> sv.saves + 1, parts |-> 0]]
    /\ UNCHANGED << pipelineVars, bf, srt, hk, dl, nf, ls, rn, bk, mh, fe, th, ip >>

\* save_dataset_state, line 362: write_text writes the next piece.
SaveWritesPiece ==
    /\ sv.phase = "writing"
    /\ sv.files[state_tmp_path("state")].parts < sv.length
    /\ sv' = [sv EXCEPT !.files[state_tmp_path("state")].parts = @ + 1]
    /\ UNCHANGED << pipelineVars, bf, srt, hk, dl, nf, ls, rn, bk, mh, fe, th, ip >>

\* save_dataset_state, line 363: tmp_path.replace(state_path), one rename.
SaveReplaces ==
    /\ sv.phase = "writing"
    /\ sv.files[state_tmp_path("state")].parts = sv.length
    /\ sv' = [sv EXCEPT !.phase = "idle",
                        !.files = IF state_tmp_path("state") = "state" THEN @
                                  ELSE [state |-> sv.files.tmp, tmp |-> NoCheckpoint]]
    /\ UNCHANGED << pipelineVars, bf, srt, hk, dl, nf, ls, rn, bk, mh, fe, th, ip >>

\* The process dies during a save; the next process saves again.
SaveKilled ==
    /\ sv.phase = "writing"
    /\ sv' = [sv EXCEPT !.phase = "idle", !.kills = @ + 1]
    /\ UNCHANGED << pipelineVars, bf, srt, hk, dl, nf, ls, rn, bk, mh, fe, th, ip >>

NextSave == SaveOpensTmp \/ SaveWritesPiece \/ SaveReplaces \/ SaveKilled

SpecSave == InitSave /\ [][NextSave]_vars

\* ------------------------------- append_doc_to_monthly_csv and the header
\* One period file under successive append_doc_to_monthly_csv calls, with the
\* columns of its header.  A row is << tag, post >>: the tag tells the rows
\* apart, post is the value in the row's timestamp column ("" when blank or
\* when the row has no such column).
MaxAppends == 3

POST_DATETIME_COLUMN == "postDateTime"
POST_DATETIME_COLUMN_ALIASES == << POST_DATETIME_COLUMN, "postDatetime", "PostingTime", "post_datetime" >>

\* str.strip().lower() on the column names in use.
LowerName(name) ==
    CASE name = "postDateTime" -> "postdatetime"
      [] name = "postDatetime" -> "postdatetime"
      [] name = "PostingTime" -> "postingtime"
      [] name = "POSTINGTIME" -> "postingtime"
      [] name = "Date" -> "date"
      [] name = "Val" -> "val"
      [] OTHER -> name

NoColumn == ""

\* detect_post_datetime_column: the first alias, in alias order, that some
\* column matches without regard to case; the column's own spelling.
detect_post_datetime_column(fieldnames) ==
    LET hits == { a \in DOMAIN POST_DATETIME_COLUMN_ALIASES :
                    \E i \in DOMAIN fieldnames :
                       LowerName(fieldnames[i]) = LowerName(POST_DATETIME_COLUMN_ALIASES[a]) }
    IN IF hits = {} THEN NoColumn
       ELSE LET a == CHOOSE x \in hits : \A y \in hits : x <= y
                i == CHOOSE x \in DOMAIN fieldnames :
                       /\ LowerName(fieldnames[x]) = LowerName(POST_DATETIME_COLUMN_ALIASES[a])
                       /\ \A y \in DOMAIN fieldnames :
                            LowerName(fieldnames[y]) = LowerName(POST_DATETIME_COLUMN_ALIASES[a])
                               => y <= x
            IN fieldnames[i]

SourceHeaders == { << "Date", "Val" >>, << "Date", "PostingTime", "Val" >>,
                   << "postDateTime", "Date", "Val" >> }

NoMonthlyCsv == [exists |-> FALSE, header |-> << >>, rows |-> << >>]

\* migrate_monthly_csv_add_post_datetime: the file after the call and the
\* field names returned.
migrate_monthly_csv_add_post_datetime(file) ==
    IF file.header = << >> THEN [file |-> file, fieldnames |-> << >>, rewritten |-> FALSE]
    ELSE IF detect_post_datetime_column(file.header) # NoColumn
    THEN [file |-> file, fieldnames |-> file.header, rewritten |-> FALSE]
    ELSE LET migrated_fieldnames == << POST_DATETIME_COLUMN >> \o file.header
         IN [file |-> [file EXCEPT !.header = migrated_fieldnames,
                                   !.rows = [i \in DOMAIN file.rows |-> << file.rows[i][1], "" >>]],
             fieldnames |-> migrated_fieldnames, rewritten |-> TRUE]

\* The value a structured append writes in the timestamp column of a row,
\* lines 723-732.
post_value(source_posting_col, target_posting_col, row, post_datetime) ==
    IF source_posting_col # NoColumn
    THEN (IF row[2] # "" THEN row[2] ELSE post_datetime)
    ELSE post_datetime

\* append_doc_to_monthly_csv on a source with the given header and rows: the
\* file after the call, whether it made a structured append, and whether it
\* rewrote the file to add the column.
append_with_header(source_doc, file, post_datetime) ==
    LET unchanged == [file |-> file, structured |-> FALSE, rewritten |-> FALSE]
        has_existing == file.exists
        existing_has_post_datetime ==
            has_existing /\ detect_post_datetime_column(file.header) # NoColumn
        use_structured_append == post_datetime # "" \/ existing_has_post_datetime
        source_posting_col == detect_post_datetime_column(source_doc.header)
    IN IF use_structured_append
       THEN IF source_doc.rows = << >> THEN unchanged
            ELSE LET migrated == IF has_existing
                                 THEN migrate_monthly_csv_add_post_datetime(file)
                                 ELSE [file |-> file, fieldnames |-> << >>, rewritten |-> FALSE]
                     still_existing == has_existing /\ migrated.fieldnames # << >>
                     target_posting_col ==
                         IF still_existing
                         THEN detect_post_datetime_column(migrated.fieldnames)
                         ELSE POST_DATETIME_COLUMN
                     target_fieldnames ==
                         IF still_existing THEN migrated.fieldnames
                         ELSE << POST_DATETIME_COLUMN >> \o
                              SelectSeq(source_doc.header,
                                        LAMBDA n : n \notin {target_posting_col, source_posting_col})
                     written == [i \in DOMAIN source_doc.rows |->
                                   << source_doc.rows[i][1],
                                      post_value(source_posting_col, target_posting_col,
                                                 source_doc.rows[i], post_datetime) >>]
                 IN [file |-> [exists |-> TRUE, header |-> target_fieldnames,
                               rows |-> migrated.file.rows \o written],
                     structured |-> TRUE, rewritten |-> migrated.rewritten]
       ELSE IF has_existing
            THEN IF source_doc.rows = << >> THEN unchanged
                 ELSE [file |-> [file EXCEPT !.rows = @ \o source_doc.rows],
                       structured |-> FALSE, rewritten |-> FALSE]
            ELSE [file |-> [exists |-> TRUE, header |-> source_doc.header, rows |-> source_doc.rows],
                  structured |-> FALSE, rewritten |-> FALSE]

\* The sources of the appends: a header and at most one row, whose timestamp
\* column, if the header has one, is filled or blank.
SourceOf(header, tag, filled) ==
    [header |-> header,
     rows |-> IF tag = 0 THEN << >>
              ELSE << << tag, IF filled /\ detect_post_datetime_column(header) # NoColumn
                              THEN "S" ELSE "" >> >>]

InitHeader ==
    /\ PipelineIdle
    /\ pc = "append_header"
    /\ ip = NoItemPhase
    /\ th = NoClient
    /\ fe = NoSearch
    /\ bf = NoBackfill
    /\ srt = NoSortCall
    /\ hk = NoHourKey
    /\ dl = NoDownload
    /\ nf = NoItemLoop
    /\ ls = NoListing
    /\ rn = NoRun
    /\ bk = NoBulk
    /\ sv = NoSave
    /\ mh = [phase |-> "appending", file |-> NoMonthlyCsv, calls |-> << >>]

\* One append_doc_to_monthly_csv call.
AppendDocWithHeader ==
    /\ mh.phase = "appending"
    /\ Len(mh.calls) < MaxAppends
    /\ \E header \in SourceHeaders, has_row \in BOOLEAN, filled \in BOOLEAN,
          post_datetime \in {"", "P"} :
         LET source_doc == SourceOf(header, IF has_row THEN Len(mh.calls) + 1 ELSE 0, filled)
             done == append_with_header(source_doc, mh.file, post_datetime)
         IN mh' = [mh EXCEPT !.file = done.file,
                             !.calls = Append(@, [before |-> mh.file, source_doc |-> source_doc,
                                                  post_datetime |-> post_datetime,
                                                  structured |-> done.structured,
                                                  rewritten |-> done.rewritten])]
    /\ UNCHANGED << pipelineVars, bf, srt, hk, dl, nf, ls, rn, bk, sv, fe, th, ip >>

NextHeader == AppendDocWithHeader

SpecHeader == InitHeader /\ [][NextHeader]_vars

\* ------------------------------- add_missing_post_datetime_in_place, whole
\* One call of add_missing_post_datetime_in_place without --overwrite on a
\* period file with or without the post column.  A row is [tag, post, zone]:
\* the tag tells the rows apart, a file without the column reads every post
\* cell as blank.
MaxAddItems == 2
MaxAddRows == 2

AddSourcePool == { << [zone |-> << "x" >>] >>,
                   << [zone |-> << " ", "x" >>], [zone |-> << "x" >>] >> }

AddPlans ==
    UNION { [1..n -> [post_datetime : {Blank, << "T1" >>}, src : AddSourcePool]] :
            n \in 0..MaxAddItems }

AddRowsWith(posts) ==
    UNION { { [i \in 1..n |-> [tag |-> i, post |-> r[i].post, zone |-> r[i].zone]] :
                r \in [1..n -> [post : posts, zone : FileZones]] } :
            n \in 1..MaxAddRows }

RECURSIVE SeqSum(_)
SeqSum(q) == IF q = << >> THEN 0 ELSE Head(q) + SeqSum(Tail(q))

\* normalize_sort_datetime on the cell texts in use; -1: None.
normalize_sort_datetime(value) ==
    CASE Strip(value) = << "T0" >> -> 0
      [] Strip(value) = << "T1" >> -> 1
      [] OTHER -> -1

\* sorted_rows_by_post_datetime: a stable sort on the parsed post value, the
\* rows without one last; descending puts the later values first.
sorted_rows_by_post_datetime(rows, order) ==
    IF order = "none" THEN rows
    ELSE LET key(i) == normalize_sort_datetime(rows[i].post)
             before(i, j) ==
                 IF (key(i) = -1) # (key(j) = -1) THEN key(j) = -1
                 ELSE IF key(i) # key(j)
                 THEN (IF order = "ascending" THEN key(i) < key(j) ELSE key(i) > key(j))
                 ELSE i < j
             place(i) == 1 + Cardinality({ j \in DOMAIN rows : before(j, i) })
         IN [p \in DOMAIN rows |-> rows[CHOOSE i \in DOMAIN rows : place(i) = p]]

\* Faulty variant: the cells are cleared in add-missing mode as well.
rows_before_fill_always_cleared(rows, overwrite_post_datetime) ==
    [i \in DOMAIN rows |-> [rows[i] EXCEPT !.post = Blank]]

\* lines 1164-1166: overwrite mode clears every post cell before the fill.
rows_before_fill(rows, overwrite_post_datetime) ==
    IF overwrite_post_datetime
    THEN [i \in DOMAIN rows |-> [rows[i] EXCEPT !.post = Blank]]
    ELSE rows

\* The doc_plan item that owns row number row_index of the positional fill.
PlanItemOfRow(doc_plan, row_index) ==
    CHOOSE k \in DOMAIN doc_plan :
       LET earlier == SeqSum([j \in 1..(k - 1) |-> Len(doc_plan[j].src)])
       IN earlier < row_index /\ row_index <= earlier + Len(doc_plan[k].src)

\* lines 1187-1196: the positional fill.
fill_rows_by_position(rows, doc_plan) ==
    [i \in DOMAIN rows |->
       LET post_datetime == doc_plan[PlanItemOfRow(doc_plan, i)].post_datetime
       IN IF Strip(rows[i].post) = Blank /\ post_datetime # Blank
          THEN [rows[i] EXCEPT !.post = post_datetime] ELSE rows[i]]

\* add_missing_post_datetime_in_place from the rows read on: the fill used,
\* the rows it leaves in the file and the status returned.
add_missing_post_datetime_in_place(has_post_field, rows, doc_plan, overwrite_post_datetime, sort_cache_classification, order) ==
    IF /\ has_post_field
       /\ ~overwrite_post_datetime
       /\ \A i \in DOMAIN rows : Strip(rows[i].post) # Blank
    THEN LET sorted_rows == sorted_rows_by_post_datetime(rows, order)
         IN [fill |-> "none", rows |-> sorted_rows, cells_filled |-> 0,
             status |-> IF sorted_rows = rows THEN "unchanged" ELSE "updated_sorted_only"]
    ELSE LET cleared == rows_before_fill(rows, overwrite_post_datetime)
             expected_rows == SeqSum([k \in DOMAIN doc_plan |-> Len(doc_plan[k].src)])
             row_count_mismatch == expected_rows # Len(rows)
             fingerprint == use_fingerprint_fill(row_count_mismatch, overwrite_post_datetime,
                                                 has_post_field, sort_cache_classification)
             filled == IF fingerprint
                       THEN fill_rows_by_source_fingerprint(cleared, doc_plan,
                                                            overwrite_post_datetime).rows
                       ELSE fill_rows_by_position(cleared, doc_plan)
             cells_filled == Cardinality({ i \in DOMAIN rows : filled[i].post # cleared[i].post })
             rows_to_write_out == sorted_rows_by_post_datetime(filled, order)
             suffix == IF row_count_mismatch THEN "_row_count_mismatch" ELSE ""
         IN IF has_post_field /\ cells_filled = 0 /\ rows_to_write_out = filled
            THEN [fill |-> IF fingerprint THEN "fingerprint" ELSE "positional",
                  rows |-> rows, cells_filled |-> 0, status |-> "unchanged" \o suffix]
            ELSE [fill |-> IF fingerprint THEN "fingerprint" ELSE "positional",
                  rows |-> rows_to_write_out, cells_filled |-> cells_filled,
                  status |-> "updated" \o suffix]

InitAddMissing ==
    /\ PipelineIdle
    /\ pc = "add_missing"
    /\ ip = NoItemPhase
    /\ th = NoClient
    /\ fe = NoSearch
    /\ srt = NoSortCall
    /\ hk = NoHourKey
    /\ dl = NoDownload
    /\ nf = NoItemLoop
    /\ ls = NoListing
    /\ rn = NoRun
    /\ bk = NoBulk
    /\ sv = NoSave
    /\ mh = NoHeaderCall
    /\ \E has_post_field \in BOOLEAN, p \in AddPlans :
         \E r \in AddRowsWith(IF has_post_field THEN FilePosts ELSE {Blank}) :
            bf = [phase |-> "read", has_post_field |-> has_post_field, doc_plan |-> p,
                  rowsIn |-> r, rows |-> r, fill |-> "", status |-> ""]

\* One call in add-missing mode, under any sort order and Sort Cache record.
AddMissingPostDatetimeInPlace ==
    /\ pc = "add_missing"
    /\ bf.phase = "read"
    /\ \E sort_cache_classification \in {"skipped", "sorted"},
          order \in {"none", "ascending", "descending"} :
         LET out == add_missing_post_datetime_in_place(bf.has_post_field, bf.rowsIn, bf.doc_plan,
                                                       FALSE, sort_cache_classification, order)
         IN bf' = [bf EXCEPT !.phase = "returned", !.rows = out.rows, !.fill = out.fill,
                             !.status = out.status]
    /\ UNCHANGED << pipelineVars, srt, hk, dl, nf, ls, rn, bk, sv, mh, fe, th, ip >>

NextAddMissing == AddMissingPostDatetimeInPlace

SpecAddMissing == InitAddMissing /\ [][NextAddMissing]_vars

\* ------------------------------------------ find_earliest_available_date
\* A calendar of MaxProbeYears years of MonthsPerYear months of DaysPerMonth
\* days; a date is its day number, counted from 1.
MaxProbeYears == 2
MonthsPerYear == 2
DaysPerMonth == 2

DaysPerYear == MonthsPerYear * DaysPerMonth
ProbeDays == 1..(MaxProbeYears * DaysPerYear)

\* date(year, month, day)
DateOf(year, month, day) == (year - 1) * DaysPerYear + (month - 1) * DaysPerMonth + day
YearOf(d) == ((d - 1) \div DaysPerYear) + 1
MonthOf(d) == (((d - 1) % DaysPerYear) \div DaysPerMonth) + 1

NoDate == 0

\* Faulty variant: the year window starts on 1 January even before the range.
year_start_unclamped(search_from, year) == DateOf(year, 1, 1)

\* line 1392: year_start = max(search_from, date(year, 1, 1))
year_start_of(search_from, year) == Max(search_from, DateOf(year, 1, 1))

InitEarliest ==
    /\ PipelineIdle
    /\ pc = "find_earliest"
    /\ ip = NoItemPhase
    /\ th = NoClient
    /\ bf = NoBackfill
    /\ srt = NoSortCall
    /\ hk = NoHourKey
    /\ dl = NoDownload
    /\ nf = NoItemLoop
    /\ ls = NoListing
    /\ rn = NoRun
    /\ bk = NoBulk
    /\ sv = NoSave
    /\ mh = NoHeaderCall
    /\ \E search_from \in ProbeDays, search_to \in ProbeDays :
         fe = [phase |-> "year", search_from |-> search_from, search_to |-> search_to,
               year |-> YearOf(search_from), year_start |-> NoDate, year_end |-> NoDate,
               month |-> 0, month_start |-> NoDate, month_end |-> NoDate, offset |-> 0,
               probes |-> << >>, result |-> NoDate]

\* archive_window_has_docs answered has_docs for the window.
Probed(level, window_start, window_end, has_docs) ==
    Append(fe.probes, [level |-> level, window_start |-> window_start,
                       window_end |-> window_end, has_docs |-> has_docs])

\* lines 1387-1388 and 1444: an empty range, or every year probed empty.
EarliestNoYear ==
    /\ fe.phase = "year"
    /\ fe.search_from > fe.search_to \/ fe.year > YearOf(fe.search_to)
    /\ fe' = [fe EXCEPT !.phase = "returned", !.result = NoDate]
    /\ UNCHANGED << pipelineVars, bf, srt, hk, dl, nf, ls, rn, bk, sv, mh, th, ip >>

\* lines 1391-1405: one pass of the year loop.
EarliestProbeYear ==
    /\ fe.phase = "year"
    /\ fe.search_from <= fe.search_to
    /\ fe.year <= YearOf(fe.search_to)
    /\ LET year_start == year_start_of(fe.search_from, fe.year)
           year_end == Min(fe.search_to, DateOf(fe.year, MonthsPerYear, DaysPerMonth))
       IN IF year_start > year_end
          THEN fe' = [fe EXCEPT !.year = @ + 1]
          ELSE \E has_docs \in BOOLEAN :
                 fe' = IF has_docs
                       THEN [fe EXCEPT !.phase = "month", !.year_start = year_start,
                                       !.year_end = year_end, !.month = MonthOf(year_start),
                                       !.probes = Probed("year", year_start, year_end, TRUE)]
                       ELSE [fe EXCEPT !.year = @ + 1,
                                       !.probes = Probed("year", year_start, year_end, FALSE)]
    /\ UNCHANGED << pipelineVars, bf, srt, hk, dl, nf, ls, rn, bk, sv, mh, th, ip >>

\* lines 1407-1422: one pass of the month loop.
EarliestProbeMonth ==
    /\ fe.phase = "month"
    /\ fe.month <= MonthOf(fe.year_end)
    /\ LET month_start == Max(fe.year_start, DateOf(fe.year, fe.month, 1))
           month_end == Min(fe.year_end, DateOf(fe.year, fe.month, DaysPerMonth))
       IN IF month_start > month_end
          THEN fe' = [fe EXCEPT !.month = @ + 1]
          ELSE \E has_docs \in BOOLEAN :
                 fe' = IF has_docs
                       THEN [fe EXCEPT !.phase = "day", !.month_start = month_start,
                                       !.month_end = month_end, !.offset = 0,
                                       !.probes = Probed("month", month_start, month_end, TRUE)]
                       ELSE [fe EXCEPT !.month = @ + 1,
                                       !.probes = Probed("month", month_start, month_end, FALSE)]
    /\ UNCHANGED << pipelineVars, bf, srt, hk, dl, nf, ls, rn, bk, sv, mh, th, ip >>

\* lines 1441-1442: no month of the year answered non-empty.
EarliestYearFallback ==
    /\ fe.phase = "month"
    /\ fe.month > MonthOf(fe.year_end)
    /\ fe' = [fe EXCEPT !.phase = "returned", !.result = fe.year_start]
    /\ UNCHANGED << pipelineVars, bf, srt, hk, dl, nf, ls, rn, bk, sv, mh, th, ip >>

\* lines 1424-1436: one pass of the day loop.
EarliestProbeDay ==
    /\ fe.phase = "day"
    /\ fe.offset < (fe.month_end - fe.month_start) + 1
    /\ LET day == fe.month_start + fe.offset
       IN \E has_docs \in BOOLEAN :
            fe' = IF has_docs
                  THEN [fe EXCEPT !.phase = "returned", !.result = day,
                                  !.probes = Probed("day", day, day, TRUE)]
                  ELSE [fe EXCEPT !.offset = @ + 1,
                                  !.probes = Probed("day", day, day, FALSE)]
    /\ UNCHANGED << pipelineVars, bf, srt, hk, dl, nf, ls, rn, bk, sv, mh, th, ip >>

\* lines 1438-1439: no day of the month answered non-empty.
EarliestMonthFallback ==
    /\ fe.phase = "day"
    /\ fe.offset >= (fe.month_end - fe.month_start) + 1
    /\ fe' = [fe EXCEPT !.phase = "returned", !.result = fe.month_start]
    /\ UNCHANGED << pipelineVars, bf, srt, hk, dl, nf, ls, rn, bk, sv, mh, th, ip >>

NextEarliest ==
    \/ EarliestNoYear
    \/ EarliestProbeYear
    \/ EarliestProbeMonth
    \/ EarliestYearFallback
    \/ EarliestProbeDay
    \/ EarliestMonthFallback

SpecEarliest == InitEarliest /\ [][NextEarliest]_vars

\* ------------------------------------------------ the client's throttle
\* ErcotPublicReportsClient._request: time is a count of ticks of
\* time.monotonic(); every request sent is logged with the tick it was sent
\* at, the tick its answer or its exception came at, and the marker after it.
MaxRequests == 3
MaxRetries == 3

IntervalSeconds == {0, 2}
RetrySleeps == {0, 1}
RetryAfterHints == {0, 3}
Durations == {0, 1}
CallerGaps == {0, 1}

\* The call that ended last: its attempts, how it ended, the times the
\* Authorization header was replaced during it, and the length of the log of
\* requests at its end.
NoCall == [attempts |-> 0, result |-> "none", error |-> "", refreshes |-> 0, sends |-> 0]

InitThrottle ==
    /\ PipelineIdle
    /\ pc = "throttle"
    /\ ip = NoItemPhase
    /\ bf = NoBackfill
    /\ srt = NoSortCall
    /\ hk = NoHourKey
    /\ dl = NoDownload
    /\ nf = NoItemLoop
    /\ ls = NoListing
    /\ rn = NoRun
    /\ bk = NoBulk
    /\ sv = NoSave
    /\ mh = NoHeaderCall
    /\ fe = NoSearch
    /\ \E request_interval_seconds \in IntervalSeconds, retry_sleep_seconds \in RetrySleeps,
          max_retries \in 0..MaxRetries :
         th = [phase |-> "in_request", now |-> 1, next_request_at |-> 0,
               request_interval_seconds |-> Max(0, request_interval_seconds),
               retry_sleep_seconds |-> retry_sleep_seconds, max_retries |-> max_retries,
               attempt |-> 1, refreshed_auth |-> FALSE, refreshes |-> 0, sent |-> << >>,
               ended_calls |-> 0, last_call |-> NoCall]

\* lines 927-930: the tick the attempt's request leaves at.
send_time(now, next_request_at, request_interval_seconds) ==
    IF request_interval_seconds > 0 /\ now < next_request_at THEN next_request_at ELSE now

\* line 925: the loop has a pass left.
CanSend ==
    th.phase = "in_request" /\ Len(th.sent) < MaxRequests /\ th.attempt <= th.max_retries

Sent(at, ended, outcome, next_request_at) ==
    Append(th.sent, [at |-> at, ended |-> ended, outcome |-> outcome,
                     attempt |-> th.attempt, next_request_at |-> next_request_at])

\* The caller's next _request call starts gap ticks after this one ended.
NextCall(at, ended, outcome, next_request_at, gap) ==
    [th EXCEPT !.now = ended + gap, !.next_request_at = next_request_at, !.attempt = 1,
               !.refreshed_auth = FALSE, !.refreshes = 0,
               !.sent = Sent(at, ended, outcome, next_request_at),
               !.ended_calls = @ + 1,
               !.last_call = [attempts |-> th.attempt,
                              result |-> IF outcome = "ok" THEN "returned" ELSE "raised",
                              error |-> IF outcome = "ok" THEN "" ELSE outcome,
                              refreshes |-> th.refreshes, sends |-> Len(th.sent) + 1]]

\* The loop goes on to the next attempt after sleeping.
NextAttempt(at, ended, outcome, next_request_at, sleep) ==
    [th EXCEPT !.now = ended + sleep, !.next_request_at = next_request_at, !.attempt = @ + 1,
               !.sent = Sent(at, ended, outcome, next_request_at)]

\* An attempt whose response has a status that is returned or raised at
\* once by the last attempt: lines 931-950, and 951-953 for the HTTPError of
\* raise_for_status.
AttemptAnswered ==
    /\ CanSend
    /\ \E took \in Durations, gap \in CallerGaps, status \in {"ok", "retryable", "not_found"} :
         LET at == send_time(th.now, th.next_request_at, th.request_interval_seconds)
             ended == at + took
             next_request_at == ended + th.request_interval_seconds
         IN /\ status = "retryable" => th.attempt >= th.max_retries
            /\ th' = IF status = "ok" \/ th.attempt >= th.max_retries
                     THEN NextCall(at, ended, status, next_request_at, gap)
                     ELSE NextAttempt(at, ended, status, next_request_at,
                                      th.retry_sleep_seconds * th.attempt)
    /\ UNCHANGED << pipelineVars, bf, srt, hk, dl, nf, ls, rn, bk, sv, mh, fe, ip >>

\* An attempt answered 401 (once, the token is refreshed and the loop goes
\* on without sleeping) or 429/500/502/503/504 before the last attempt:
\* lines 939-948.
AttemptErrorStatus ==
    /\ CanSend
    /\ th.attempt < th.max_retries
    /\ \E took \in Durations, retry_after \in RetryAfterHints, status \in {"unauthorized", "retryable"} :
         LET at == send_time(th.now, th.next_request_at, th.request_interval_seconds)
             ended == at + took
             next_request_at == ended + th.request_interval_seconds
         IN /\ status = "unauthorized" => ~th.refreshed_auth
            /\ th' = IF status = "unauthorized"
                     THEN [NextAttempt(at, ended, status, next_request_at, 0)
                              EXCEPT !.refreshed_auth = TRUE,
                                     !.refreshes = @ + 1]
                     ELSE NextAttempt(at, ended, status, next_request_at,
                                      Max(th.retry_sleep_seconds * th.attempt, retry_after))
    /\ UNCHANGED << pipelineVars, bf, srt, hk, dl, nf, ls, rn, bk, sv, mh, fe, ip >>

\* An attempt whose session.request raises a network exception: line 938 is
\* not reached; lines 951-954.
AttemptRaises ==
    /\ CanSend
    /\ \E took \in Durations, gap \in CallerGaps :
         LET at == send_time(th.now, th.next_request_at, th.request_interval_seconds)
             ended == at + took
         IN th' = IF th.attempt >= th.max_retries
                  THEN NextCall(at, ended, "exception", th.next_request_at, gap)
                  ELSE NextAttempt(at, ended, "exception", th.next_request_at,
                                   th.retry_sleep_seconds * th.attempt)
    /\ UNCHANGED << pipelineVars, bf, srt, hk, dl, nf, ls, rn, bk, sv, mh, fe, ip >>

\* An attempt answered 401 before the last attempt, and authenticate raised
\* inside _refresh_bearer_token (lines 905-912): a RequestException is caught
\* at line 951 and the loop sleeps and goes on with the flag still down; any
\* other exception leaves _request at once.
AttemptRefreshRaises ==
    /\ CanSend
    /\ th.attempt < th.max_retries
    /\ ~th.refreshed_auth
    /\ \E took \in Durations, gap \in CallerGaps, raised \in {"refresh_request_exception", "refresh_error"} :
         LET at == send_time(th.now, th.next_request_at, th.request_interval_seconds)
             ended == at + took
             next_request_at == ended + th.request_interval_seconds
         IN th' = IF raised = "refresh_error"
                  THEN NextCall(at, ended, raised, next_request_at, gap)
                  ELSE NextAttempt(at, ended, raised, next_request_at,
                                   th.retry_sleep_seconds * th.attempt)
    /\ UNCHANGED << pipelineVars, bf, srt, hk, dl, nf, ls, rn, bk, sv, mh, fe, ip >>

\* lines 925 and 955: the loop has no pass at all and the call raises
\* RuntimeError("Retry loop exhausted unexpectedly.") with nothing sent.
RetryLoopExhausted ==
    /\ th.phase = "in_request"
    /\ th.max_retries <= 0
    /\ th.ended_calls < MaxRequests
    /\ \E gap \in CallerGaps :
         th' = [th EXCEPT !.now = @ + gap, !.ended_calls = @ + 1,
                          !.last_call = [attempts |-> 0, result |-> "raised",
                                         error |-> "retry_loop_exhausted", refreshes |-> 0,
                                         sends |-> Len(th.sent)]]
    /\ UNCHANGED << pipelineVars, bf, srt, hk, dl, nf, ls, rn, bk, sv, mh, fe, ip >>

NextThrottle ==
    \/ AttemptAnswered
    \/ AttemptErrorStatus
    \/ AttemptRaises
    \/ AttemptRefreshRaises
    \/ RetryLoopExhausted

SpecThrottle == InitThrottle /\ [][NextThrottle]_vars

\* --------------------------------------- the bulk and item phases of a run
\* Runs of main over one dataset whose listing is cached and complete, with
\* resume state and consolidation on: the bulk chunk loop, then the item
\* loop, under --dry-run or not, and a kill while a bulk payload is being
\* written.  A source file is "none", "partial" (fewer bytes than the
\* payload) or "full"; merged[d] tells from which of them the rows of item d
\* in the period file came.
MaxPhaseDocs == 2
MaxPhaseRuns == 2

PhaseDocs == 1..MaxPhaseDocs

PhaseDisk(next_doc_index, source_file, marker_ids, merged) ==
    [next_doc_index |-> next_doc_index, source_file |-> source_file,
     marker_ids |-> marker_ids, merged |-> merged]

FreshDisk == PhaseDisk(0, [d \in PhaseDocs |-> "none"], {}, [d \in PhaseDocs |-> "none"])

\* expected_size: the size the listing gives for the item, -1 when it gives none.
expected_size(sized, d) == IF sized THEN 10 + d ELSE -1

\* st_size of the source file of item d.
st_size(file, d) == CASE file = "full" -> 10 + d [] file = "partial" -> 1 [] OTHER -> 0

\* Faulty variant: a file of any size is taken for the download.
exists_and_matches_any_size(file, sized, d) == file # "none"

\* lines 2692-2699 and 2874-2878
exists_and_matches(file, sized, d) ==
    /\ file # "none"
    /\ expected_size(sized, d) < 0 \/ st_size(file, d) = expected_size(sized, d)

InitItemPhase ==
    /\ PipelineIdle
    /\ pc = "item_phase"
    /\ bf = NoBackfill
    /\ srt = NoSortCall
    /\ hk = NoHourKey
    /\ dl = NoDownload
    /\ nf = NoItemLoop
    /\ ls = NoListing
    /\ rn = NoRun
    /\ bk = NoBulk
    /\ sv = NoSave
    /\ mh = NoHeaderCall
    /\ fe = NoSearch
    /\ th = NoClient
    /\ \E sized \in BOOLEAN :
         ip = [phase |-> "stopped", sized |-> sized, disk |-> FreshDisk, runs |-> 0,
               dry_run |-> FALSE, disable_bulk_download |-> FALSE, at_start |-> FreshDisk,
               doc_index |-> 0, to_write |-> << >>, bulk_written_doc_ids |-> {},
               failed |-> FALSE, killed |-> FALSE, dry_runs |-> 0, taken_partial |-> {}]

\* main, lines 2613-2617 and 2646-2654: a run starts; the item loop and the
\* bulk chunk start at the persisted next-item index.
PhaseRunStarts ==
    /\ ip.phase = "stopped"
    /\ ip.runs < MaxPhaseRuns
    /\ \E dry_run \in BOOLEAN, disable_bulk_download \in BOOLEAN :
         ip' = [ip EXCEPT !.phase = IF disable_bulk_download THEN "items" ELSE "bulk",
                          !.runs = @ + 1, !.dry_run = dry_run,
                          !.dry_runs = IF dry_run THEN @ + 1 ELSE @,
                          !.disable_bulk_download = disable_bulk_download,
                          !.at_start = ip.disk,
                          !.doc_index = Max(0, Min(ip.disk.next_doc_index, MaxPhaseDocs)),
                          !.to_write = << >>, !.bulk_written_doc_ids = {}, !.failed = FALSE]
    /\ UNCHANGED << pipelineVars, bf, srt, hk, dl, nf, ls, rn, bk, sv, mh, fe, th >>

\* The items of the chunk that are asked for, lines 2672-2699.
PhaseChunkDocIds ==
    SelectSeq([k \in 1..(MaxPhaseDocs - ip.doc_index) |-> ip.doc_index + k],
              LAMBDA d : /\ d \notin ip.disk.marker_ids
                         /\ ~exists_and_matches(ip.disk.source_file[d], ip.sized, d))

\* main, lines 2669-2775: the one chunk of the run - nothing to ask for,
\* download_docs raises, or its payloads are at hand.
PhaseBulkChunk ==
    /\ ip.phase = "bulk"
    /\ ip.to_write = << >>
    /\ \E answered \in BOOLEAN :
         LET asked == PhaseChunkDocIds
             taken == { d \in (ip.doc_index + 1)..MaxPhaseDocs :
                          /\ d \notin ip.disk.marker_ids
                          /\ ip.disk.source_file[d] = "partial"
                          /\ exists_and_matches("partial", ip.sized, d) }
         IN ip' = IF asked = << >> \/ ~answered
                  THEN [ip EXCEPT !.phase = "items", !.taken_partial = @ \cup taken,
                                  !.failed = @ \/ asked # << >>]
                  ELSE [ip EXCEPT !.phase = "bulk_write", !.to_write = asked,
                                  !.taken_partial = @ \cup taken]
    /\ UNCHANGED << pipelineVars, bf, srt, hk, dl, nf, ls, rn, bk, sv, mh, fe, th >>

\* main, lines 2785-2814: one payload is written to its destination.
PhaseBulkWrite ==
    /\ ip.phase = "bulk_write"
    /\ LET d == Head(ip.to_write)
       IN ip' = [ip EXCEPT !.disk.source_file[d] = "full",
                           !.bulk_written_doc_ids = @ \cup {d},
                           !.to_write = Tail(@),
                           !.phase = IF Tail(ip.to_write) = << >> THEN "items" ELSE "bulk_write"]
    /\ UNCHANGED << pipelineVars, bf, srt, hk, dl, nf, ls, rn, bk, sv, mh, fe, th >>

\* The process is killed inside handle.write(content) of line 2798: part of
\* the payload is in the destination file.
PhaseKilledInBulkWrite ==
    /\ ip.phase = "bulk_write"
    /\ LET d == Head(ip.to_write)
       IN ip' = [ip EXCEPT !.disk.source_file[d] = "partial", !.phase = "stopped",
                           !.to_write = << >>, !.bulk_written_doc_ids = {}, !.killed = TRUE]
    /\ UNCHANGED << pipelineVars, bf, srt, hk, dl, nf, ls, rn, bk, sv, mh, fe, th >>

\* save_doc_checkpoint with resume state on, then the next item.
PhaseCheckpointed(state) ==
    [state EXCEPT !.disk.next_doc_index = ip.doc_index + 1, !.doc_index = ip.doc_index + 1]

\* main, lines 2833-2987: one pass of the item loop.
PhaseItem ==
    /\ ip.phase = "items"
    /\ ip.doc_index < MaxPhaseDocs
    /\ \E downloads \in BOOLEAN, readable \in BOOLEAN :
         LET d == ip.doc_index + 1
             file == ip.disk.source_file[d]
             matches == exists_and_matches(file, ip.sized, d)
             fetched == ~matches /\ d \notin ip.bulk_written_doc_ids
             source_path == IF fetched THEN "full" ELSE file
             raised == (fetched /\ ~downloads) \/ (source_path = "partial" /\ ~readable)
             without == [ip EXCEPT !.bulk_written_doc_ids = @ \ {d}]
         IN ip' = IF d \in ip.disk.marker_ids THEN PhaseCheckpointed(ip)
                  ELSE IF ip.dry_run THEN PhaseCheckpointed(ip)
                  ELSE IF raised
                  THEN [without EXCEPT !.doc_index = @ + 1, !.failed = TRUE,
                                       !.disk.source_file[d] =
                                           IF fetched THEN file ELSE @,
                                       !.taken_partial = IF source_path = "partial"
                                                         THEN @ \cup {d} ELSE @]
                  ELSE PhaseCheckpointed(
                         [without EXCEPT !.disk.source_file[d] = source_path,
                                         !.disk.merged[d] = source_path,
                                         !.disk.marker_ids = @ \cup {d},
                                         !.taken_partial = IF source_path = "partial"
                                                           THEN @ \cup {d} ELSE @])
    /\ UNCHANGED << pipelineVars, bf, srt, hk, dl, nf, ls, rn, bk, sv, mh, fe, th >>

\* main, lines 3213-3220: the dataset is done and the process ends.
PhaseRunEnds ==
    /\ ip.phase = "items"
    /\ ip.doc_index >= MaxPhaseDocs
    /\ ip' = [ip EXCEPT !.phase = "stopped", !.bulk_written_doc_ids = {}]
    /\ UNCHANGED << pipelineVars, bf, srt, hk, dl, nf, ls, rn, bk, sv, mh, fe, th >>

NextItemPhase ==
    \/ PhaseRunStarts
    \/ PhaseBulkChunk
    \/ PhaseBulkWrite
    \/ PhaseKilledInBulkWrite
    \/ PhaseItem
    \/ PhaseRunEnds

SpecItemPhase == InitItemPhase /\ [][NextItemPhase]_vars

\* ---------------------------------------------------- rebuild_monthly_file
\* One call of rebuild_monthly_file on a period file that exists.  An
\* identifier is a number; its source is absent ("none"), a file with no CSV
\* text ("empty") or a file with one row ("rows"); the rows carry the tag of
\* their identifier.
MaxRebuildDocs == 2

RebuildIds == 1..MaxRebuildDocs
SourceKinds == {"none", "empty", "rows"}
NoRebuildCache == [exists |-> FALSE, sort_order |-> "", classification |-> "", mtime_ns |-> 0]
NoTmp == [exists |-> FALSE, rows |-> << >>]

\* resolve_post_datetime_for_doc under the post_datetime_map in use.
resolve_post_datetime_for_doc(doc_id) == IF doc_id = 1 THEN << "T1" >> ELSE << "T0" >>

\* lines 959-988: the rows one identifier adds to output_rows.
rows_of_doc(doc_id, kind) ==
    IF kind = "rows"
    THEN << [tag |-> doc_id, post |-> resolve_post_datetime_for_doc(doc_id)] >>
    ELSE << >>

\* lines 958-988, phase 3: the rows of the sources at hand, in marker order.
RECURSIVE assembled_rows(_, _)
assembled_rows(doc_ids, have) ==
    IF doc_ids = << >> THEN << >>
    ELSE rows_of_doc(Head(doc_ids), have[Head(doc_ids)]) \o assembled_rows(Tail(doc_ids), have)

\* lines 965-967: the marker lines whose source is neither on disk nor fetched.
missing_sources_of(doc_ids, have) ==
    Cardinality({ i \in DOMAIN doc_ids : have[doc_ids[i]] = "none" })

\* Faulty variant: a missing source does not stop the rewrite.
rebuild_status_partial(missing_sources, output_rows, dry_run) ==
    IF output_rows = << >> THEN "skipped_no_rows"
    ELSE IF dry_run THEN "planned"
    ELSE "rebuilt"

\* lines 992-1024 and 1040-1048: the status of the call.
rebuild_status(missing_sources, output_rows, dry_run) ==
    IF missing_sources > 0 THEN "skipped_missing_sources"
    ELSE IF output_rows = << >> THEN "skipped_no_rows"
    ELSE IF dry_run THEN "planned"
    ELSE "rebuilt"

\* write_monthly_sort_cache, lines 146-158: the record for the file as it is.
rebuild_sort_cache(file, order) ==
    [exists |-> TRUE, sort_order |-> order,
     classification |-> IF order \in {"ascending", "descending"} THEN "sorted" ELSE "skipped",
     mtime_ns |-> file.mtime]

InitRebuild ==
    /\ PipelineIdle
    /\ pc = "rebuild"
    /\ ip = NoItemPhase
    /\ th = NoClient
    /\ fe = NoSearch
    /\ srt = NoSortCall
    /\ hk = NoHourKey
    /\ dl = NoDownload
    /\ nf = NoItemLoop
    /\ ls = NoListing
    /\ rn = NoRun
    /\ bk = NoBulk
    /\ sv = NoSave
    /\ mh = NoHeaderCall
    /\ \E n \in 0..MaxRebuildDocs, has_client \in BOOLEAN, download_missing_sources \in BOOLEAN,
          dry_run \in BOOLEAN, order \in {"none", "ascending"}, cached \in BOOLEAN :
         \E doc_ids \in [1..n -> RebuildIds], local_source_map \in [RebuildIds -> SourceKinds] :
            LET file == [rows |-> << [tag |-> 0, post |-> Blank] >>, mtime |-> 1]
                cache == IF cached THEN rebuild_sort_cache(file, "none") ELSE NoRebuildCache
            IN bf = [phase |-> "start", doc_ids |-> doc_ids,
                     local_source_map |-> local_source_map, has_client |-> has_client,
                     download_missing_sources |-> download_missing_sources,
                     dry_run |-> dry_run, order |-> order, have |-> local_source_map,
                     output_rows |-> << >>, missing_sources |-> 0, tmp |-> NoTmp,
                     monthly |-> file, monthlyIn |-> file, cache |-> cache,
                     cacheIn |-> cache, status |-> ""]

\* lines 931-933: the marker has no identifier.
RebuildMissingDocIds ==
    /\ pc = "rebuild"
    /\ bf.phase = "start"
    /\ bf.doc_ids = << >>
    /\ bf' = [bf EXCEPT !.phase = "returned", !.status = "missing_docids"]
    /\ UNCHANGED << pipelineVars, srt, hk, dl, nf, ls, rn, bk, sv, mh, fe, th, ip >>

\* lines 943-1035: the sources on disk, the bulk fetch of the others (any
\* part of them may come back), the rows, and the three early returns.
RebuildAssemble ==
    /\ pc = "rebuild"
    /\ bf.phase = "start"
    /\ bf.doc_ids # << >>
    /\ LET missing_doc_ids == { d \in Range(bf.doc_ids) : bf.local_source_map[d] = "none" }
           may_fetch == /\ missing_doc_ids # {}
                        /\ bf.has_client
                        /\ bf.download_missing_sources
                        /\ ~bf.dry_run
       IN \E fetched \in SUBSET missing_doc_ids :
            /\ ~may_fetch => fetched = {}
            /\ LET have == [d \in RebuildIds |->
                               IF d \in fetched THEN "rows" ELSE bf.local_source_map[d]]
                   output_rows == sorted_rows_by_post_datetime(
                                      assembled_rows(bf.doc_ids, have), bf.order)
                   missing_sources == missing_sources_of(bf.doc_ids, have)
                   status == rebuild_status(missing_sources, output_rows, bf.dry_run)
               IN bf' = [bf EXCEPT !.have = have, !.output_rows = output_rows,
                                   !.missing_sources = missing_sources,
                                   !.phase = IF status = "rebuilt" THEN "write_tmp"
                                             ELSE "returned",
                                   !.status = IF status = "rebuilt" THEN "" ELSE status]
    /\ UNCHANGED << pipelineVars, srt, hk, dl, nf, ls, rn, bk, sv, mh, fe, th, ip >>

\* lines 1026-1036: the rows go to the temporary file; a write that raises
\* leaves what it had written there and ends the call.
RebuildWriteTmp ==
    /\ pc = "rebuild"
    /\ bf.phase = "write_tmp"
    /\ \E written \in 0..Len(bf.output_rows) :
         bf' = [bf EXCEPT !.tmp = [exists |-> TRUE, rows |-> SubSeq(bf.output_rows, 1, written)],
                          !.phase = IF written = Len(bf.output_rows) THEN "replace"
                                    ELSE "returned",
                          !.status = IF written = Len(bf.output_rows) THEN "" ELSE "raised"]
    /\ UNCHANGED << pipelineVars, srt, hk, dl, nf, ls, rn, bk, sv, mh, fe, th, ip >>

\* lines 1037-1048: the temporary file takes the place of the period file and
\* the Sort Cache is written for it (a write that fails is swallowed).
RebuildReplace ==
    /\ pc = "rebuild"
    /\ bf.phase = "replace"
    /\ \E cache_written \in BOOLEAN :
         LET file == [rows |-> bf.tmp.rows, mtime |-> bf.monthly.mtime + 1]
         IN bf' = [bf EXCEPT !.monthly = file, !.tmp = NoTmp,
                             !.cache = IF cache_written THEN rebuild_sort_cache(file, bf.order)
                                       ELSE @,
                             !.phase = "returned", !.status = "rebuilt"]
    /\ UNCHANGED << pipelineVars, srt, hk, dl, nf, ls, rn, bk, sv, mh, fe, th, ip >>

NextRebuild ==
    \/ RebuildMissingDocIds
    \/ RebuildAssemble
    \/ RebuildWriteTmp
    \/ RebuildReplace

SpecRebuild == InitRebuild /\ [][NextRebuild]_vars

\* ------------------------------------------------------------ properties
DocOf(id) == CHOOSE d \in DocPool : d.docId = id

RowCount(rows, id) == Cardinality({ i \in DOMAIN rows : rows[i][1] = id })

Occurrences(rows, r) == Cardinality({ i \in DOMAIN rows : rows[i] = r })

\* C1 - Idempotent merge: once an identifier is in a period file's Merge
\* Marker, no step of any run appends rows of that item to the period file
\* (outside the sort's rewrite the number of its rows never changes); and as
\* long as no run was killed, a recorded item's rows are in the file exactly
\* once, however many passes and runs follow.
C1_IdempotentMerge ==
    /\ [][ \A m \in Months, id \in DocIds :
             (id \in Range(marker[m]) /\ pc \notin {"sort", "sort_write"})
                => RowCount(monthly'[m].rows, id) = RowCount(monthly[m].rows, id) ]_vars
    /\ [](\A m \in Months, id \in DocIds :
             (id \in Range(marker[m]) /\ ~hist.crashed /\ pc # "sort_write")
                => RowCount(monthly[m].rows, id) = Len(DocOf(id).rows))

\* A later run passes over an item that is recorded and whose rows are there once.
C1_Witness ==
    /\ InLoop
    /\ runs >= 2
    /\ CurId \in Range(marker[CurMonth])
    /\ CurDoc.rows # << >>
    /\ RowCount(monthly[CurMonth].rows, CurId) = Len(CurDoc.rows)

\* The period files an uninterrupted run over the catalog with settings w leaves.
RECURSIVE MergedRows(_, _, _)
MergedRows(ds, m, seen) ==
    IF ds = << >> THEN << >>
    ELSE LET d == Head(ds)
             id == extract_doc_id(d)
         IN IF d.month = m /\ id # "" /\ id \notin seen
            THEN DocRows(d) \o MergedRows(Tail(ds), m, seen \cup {id})
            ELSE MergedRows(Tail(ds), m, seen)

UninterruptedRows(m, w) ==
    LET planned == cap_docs(order_archive_docs(catalog, w.download_order), w.max_docs_per_dataset)
        merged == MergedRows(planned, m, {})
    IN IF ParsedRows(merged) = << >> \/ already_sorted(merged, MonthlySortOrder)
       THEN merged
       ELSE ordered_rows(merged, MonthlySortOrder)

\* The reference itself: a run that was never killed and met no failure ends
\* with exactly these files.
UninterruptedRunResult ==
    (pc = "done" /\ ~hist.crashed /\ ~hist.failed /\ Cardinality(hist.windows) = 1)
       => \A m \in Months : monthly[m].rows = UninterruptedRows(m, args)

\* C2 - Resume equivalence: runs killed only right after checkpoint saves and
\* re-run with the same window end with the period files of one
\* uninterrupted run.
C2_ResumeEquivalence ==
    (pc = "done" /\ hist.ckptOnly /\ ~hist.failed /\ Cardinality(hist.windows) = 1)
       => \A m \in Months : monthly[m].rows = UninterruptedRows(m, args)

FreshStart ==
    /\ pc = "listing"
    /\ dataset_state = initial_dataset_state(args)
    /\ stateFile = initial_dataset_state(args)
    /\ ~cacheFile.exists
    /\ docs = << >>
    /\ page = 1
    /\ doc_index = 0

\* C3 - Window compatibility: a run that finds a checkpoint differing from its
\* own settings in some window field starts exactly as a run that finds no
\* checkpoint: from the initial record, page 1, item index 0, cache deleted.
C3_WindowCompatibility ==
    [][ (/\ pc \in {"start", "done"}
         /\ pc' \notin {"start", "done"}
         /\ \/ stateFile = NoState
            \/ DifferingFields(stateFile, args') # {})
        => FreshStart' ]_vars

\* A run has started over a checkpoint that differed in exactly one field and
\* over an existing cache file.
C3_Witness ==
    /\ hist.diffFields = 1
    /\ hist.cacheExisted
    /\ FreshStart

PageDocs(ds, p) == SelectSeq(ds, LAMBDA d : d.archive_page = p)

RemotePageTagged(p, size) ==
    LET rows == list_archive_page(p, size) IN [i \in 1..Len(rows) |-> Tagged(rows[i], p)]

\* C4 - No page is left partially recorded: while a resumed listing is under
\* way, every page below the page to request next has all of its items in the
\* item list.
C4_NoPartialPage ==
    (pc = "listing" /\ hist.compatible)
       => \A p \in 1..(page - 1) : PageDocs(docs, p) = RemotePageTagged(p, args.page_size)

\* C5 - Whenever no process is running (after a crash or after a run), every
\* identifier in a Merge Marker has all rows of its item in the period file.
C5_MarkedRowsPresent ==
    pc \in {"start", "done"}
       => \A m \in Months : \A id \in Range(marker[m]) :
             \A r \in Range(DocRows(DocOf(id))) :
                Occurrences(monthly[m].rows, r) >= Occurrences(DocRows(DocOf(id)), r)

\* ---- backfill properties
BackfillFilled == pc = "backfill" /\ bf.phase = "filled"

IndexSeq(n) == [i \in 1..n |-> i]

\* The cells that were blank when the fill was called and whose row has
\* fingerprint fp, in file order.
BlankCells(fp) ==
    SelectSeq(IndexSeq(Len(bf.before)),
              LAMBDA i : Strip(bf.before[i].post) = Blank /\ Fingerprint(bf.before[i]) = fp)

\* Those of them the fill gave a value.
FilledCells(fp) == { i \in Range(BlankCells(fp)) : bf.rows[i].post # bf.before[i].post }

AllFingerprints == SourceKeys(bf.doc_plan) \cup { Fingerprint(bf.before[i]) : i \in DOMAIN bf.before }

C7_OverwriteLeavesCollisionsEmpty ==
    (BackfillFilled /\ bf.overwrite)
       => /\ \A i \in DOMAIN bf.before : bf.before[i].post = Blank
          /\ \A i \in DOMAIN bf.rows :
                Fingerprint(bf.rows[i]) \in Colliding(bf.doc_plan) => bf.rows[i].post = Blank
          /\ Colliding(bf.doc_plan) # {} => bf.severity = "ERROR"

\* Overwrite mode: a row that had a value and a colliding fingerprint is empty
\* after the call, while a row of a non-colliding fingerprint was filled.
C7_Witness ==
    /\ BackfillFilled
    /\ bf.overwrite
    /\ \E i \in DOMAIN bf.rows :
          /\ bf.rowsIn[i].post = << "T0" >>
          /\ Fingerprint(bf.rows[i]) \in Colliding(bf.doc_plan)
          /\ source_fingerprints(bf.doc_plan, Fingerprint(bf.rows[i]))[1] # Blank
          /\ bf.rows[i].post = Blank
    /\ bf.cells_filled > 0

\* C8 - one-for-one consumption: a fingerprint fills no more blank cells than
\* source rows carry it; a fingerprint carried by exactly one source row whose
\* item has a metadata value fills exactly one blank cell when there is one.
C8_OneForOneConsumption ==
    BackfillFilled
       => \A fp \in AllFingerprints :
             LET S == source_fingerprints(bf.doc_plan, fp)
             IN /\ Cardinality(FilledCells(fp)) <= Len(S)
                /\ (Len(S) = 1 /\ S[1] # Blank /\ BlankCells(fp) # << >>)
                      => Cardinality(FilledCells(fp)) = 1

\* One source row with a metadata value, two blank cells of its fingerprint,
\* one of them filled.
C8_Witness ==
    /\ BackfillFilled
    /\ \E fp \in SourceKeys(bf.doc_plan) :
          /\ Len(source_fingerprints(bf.doc_plan, fp)) = 1
          /\ source_fingerprints(bf.doc_plan, fp)[1] # Blank
          /\ Len(BlankCells(fp)) = 2
          /\ Cardinality(FilledCells(fp)) = 1

\* C9 - Resume of the listing: with a compatible checkpoint the item list is
\* the cached one, the first page requested is the highest cached page + 1,
\* no page at or below it is requested, and nothing is requested when the
\* checkpoint says the listing is complete and the cache file exists.
C9_ListingResumesAfterCache ==
    (pc # "start" /\ hist.compatible)
       => /\ \A i \in DOMAIN requested : requested[i] > hist.cachedLastPage
          /\ requested # << >> => requested[1] = hist.cachedLastPage + 1
          /\ (hist.loadedComplete /\ hist.cacheExisted) => requested = << >>
          /\ (pc \in {"listing", "reuse"} /\ requested = << >>)
                => docs = load_archive_docs_cache(cacheFile).docs

\* A restarted run has listed on from the page after the cached one.
C9_Witness ==
    /\ hist.compatible
    /\ hist.cachedLastPage = 1
    /\ docs # << >>
    /\ requested = << 2 >>

\* C10 - No identifier occurs twice in a Merge Marker file.
C10_MarkerIdsUnique ==
    \A m \in Months : \A i, j \in DOMAIN marker[m] : i # j => marker[m][i] # marker[m][j]

\* The catalog lists one identifier twice, a run was killed, and a later run
\* has passed over both entries with the identifier recorded.
C10_Witness ==
    /\ Len(catalog) >= 2
    /\ catalog[1].docId = "A" /\ catalog[2].docId = "A"
    /\ hist.crashed
    /\ pc = "done"
    /\ "A" \in Range(marker[1])

\* ---- sort properties
\* The last two operations on the file were sort_monthly_csv calls with the
\* same order and strategy.
SortedTwice ==
    /\ srt.phase = "ready"
    /\ srt.last.op = "sort"
    /\ srt.prev.op = "sort"
    /\ srt.last.sort_order = srt.prev.sort_order
    /\ srt.last.sort_strategy = srt.prev.sort_strategy

\* No row of the file yields a key under the strategy of the last call, or the
\* file has no header.
NothingToSortBy ==
    \/ srt.header = "none"
    \/ /\ srt.file.rows # << >>
       /\ parsed_rows(srt.file.rows, resolve_monthly_sort_strategy(srt.last.sort_strategy)) = << >>

\* C11 as stated: after two calls of sort_monthly_csv in a row with the same
\* order and strategy the file is what the first call left, and the second
\* call returned already.
C11_SecondSortIsAlready ==
    SortedTwice => /\ srt.file = srt.last.before
                   /\ srt.last.result = "already"

\* C11, amended: after two calls of sort_monthly_csv in a row with the same
\* order and strategy the file is what the first call left; the second call
\* returned already, unless the file has no header or no row that yields a
\* key, in which case both calls returned skipped.
C11_SecondSortIsAlreadyOrSkipped ==
    SortedTwice =>
        /\ srt.file = srt.last.before
        /\ IF NothingToSortBy
           THEN srt.prev.result = "skipped" /\ srt.last.result = "skipped"
           ELSE srt.last.result = "already"

\* The first call rewrote the file, the second found it in order.
C11_Witness ==
    /\ SortedTwice
    /\ srt.prev.result = "sorted"
    /\ srt.last.result = "already"
    /\ srt.prev.before.rows # srt.file.rows

\* The last operation was a sort_monthly_csv call on a file whose keyed rows
\* were in the requested order with no unparsed row ahead of a keyed row.
SortedFileSorted ==
    /\ srt.phase = "ready"
    /\ srt.last.op = "sort"
    /\ scan_already_sorted(srt.last.before.rows, srt.last.sort_order,
                           resolve_monthly_sort_strategy(srt.last.sort_strategy))

\* The call left the file as it was, and a cache record it wrote carries the
\* signature the file had before the call.
FileKeptAndCacheOfBefore ==
    /\ srt.file = srt.last.before
    /\ \/ srt.cache = srt.last.cache_before
       \/ /\ srt.cache.size_bytes = Signature(srt.last.before).size
          /\ srt.cache.mtime_ns = Signature(srt.last.before).mtime

\* C12 as stated: sort_monthly_csv on a file whose keyed rows are monotonic
\* in the requested direction, with no unparsed row ahead of a keyed row,
\* returns already, leaves content, size and mtime of the file unchanged, and
\* the cache record it writes carries the signature of before the call.
C12_SortedFileIsAlready ==
    SortedFileSorted => /\ srt.last.result = "already"
                        /\ FileKeptAndCacheOfBefore

\* C12, amended: the same for a file that has a keyed row, or a header and no
\* row at all; a file without header or with rows none of which yields a key
\* is left unchanged too, but the call returns skipped.
C12_SortedFileIsAlreadyOrSkipped ==
    SortedFileSorted =>
        /\ srt.last.result = IF NothingToSortBy THEN "skipped" ELSE "already"
        /\ FileKeptAndCacheOfBefore

\* A file with two keyed rows in order was scanned, not answered from the
\* cache, and the record written took the signature of before the call.
C12_Witness ==
    /\ SortedFileSorted
    /\ srt.last.scanned
    /\ srt.last.result = "already"
    /\ Len(parsed_rows(srt.file.rows, resolve_monthly_sort_strategy(srt.last.sort_strategy))) >= 2
    /\ srt.cache # srt.last.cache_before
    /\ srt.cache.mtime_ns = srt.last.before.mtime

\* The cache record found by the last operation was written for the order and
\* strategy asked for, by this cache version, for the size and mtime the file
\* had.
CacheBeforeMatchesCall ==
    /\ srt.last.cache_before.exists
    /\ srt.last.cache_before.version = MONTHLY_SORT_CACHE_VERSION
    /\ srt.last.cache_before.sort_order = srt.last.sort_order
    /\ srt.last.cache_before.sort_strategy = srt.last.sort_strategy
    /\ srt.last.cache_before.size_bytes = Signature(srt.last.before).size
    /\ srt.last.cache_before.mtime_ns = Signature(srt.last.before).mtime

\* sort_monthly_csv answers from the cache only when the record matches in
\* version, order, strategy, size and mtime, and scans the file otherwise.
SortShortCircuitsOnlyOnMatch ==
    srt.last.op = "sort" => (~srt.last.scanned <=> CacheBeforeMatchesCall)

\* The backfill chooses the positional fill only on a cache record whose
\* signature is that of the file.
BackfillPositionalOnlyOnMatch ==
    (srt.last.op = "backfill" /\ srt.last.result = "positional") =>
        /\ srt.last.cache_before.size_bytes = Signature(srt.last.before).size
        /\ srt.last.cache_before.mtime_ns = Signature(srt.last.before).mtime

\* C13: a Sort Cache record is acted upon only while size and mtime of the
\* file equal the cached signature: sort_monthly_csv short-circuits only on a
\* full match and rescans otherwise, and the backfill's choice between
\* positional and fingerprint fill does not rest on a classification whose
\* signature no longer matches the file.
C13_CacheUsedOnlyWhileSignatureMatches ==
    SortShortCircuitsOnlyOnMatch /\ BackfillPositionalOnlyOnMatch

\* The strategy under which the last sort_monthly_csv call derived its keys.
LastStrategy == resolve_monthly_sort_strategy(srt.last.sort_strategy)

Unparsed(row) == csv_row_sort_key(row, LastStrategy) = NoKey

\* C14: after sort_monthly_csv has rewritten a file, ascending or descending,
\* every row without a key comes after all keyed rows and the rows without a
\* key are in the relative order they had before; and a file in which a row
\* without a key precedes a keyed row is never classified already.
C14_UnparsedRowsLast ==
    (srt.phase = "ready" /\ srt.last.op = "sort") =>
        /\ srt.last.result = "sorted" =>
              /\ \A i, j \in DOMAIN srt.file.rows :
                    (i < j /\ Unparsed(srt.file.rows[i])) => Unparsed(srt.file.rows[j])
              /\ unparsed_rows(srt.file.rows, LastStrategy)
                    = unparsed_rows(srt.last.before.rows, LastStrategy)
        /\ (\E i, j \in DOMAIN srt.last.before.rows :
                i < j /\ Unparsed(srt.last.before.rows[i]) /\ ~Unparsed(srt.last.before.rows[j]))
              => srt.last.result # "already"

\* A descending sort rewrote a file that began with a row without a key and
\* held two such rows.
C14_Witness ==
    /\ srt.phase = "ready"
    /\ srt.last.op = "sort"
    /\ srt.last.sort_order = "descending"
    /\ srt.last.result = "sorted"
    /\ Unparsed(srt.last.before.rows[1])
    /\ Len(unparsed_rows(srt.last.before.rows, LastStrategy)) >= 2
    /\ Len(parsed_rows(srt.last.before.rows, LastStrategy)) >= 1

\* ---- sort key properties
\* The hour-ending number a text states: the digits ahead of its first colon.
HourEndingOf(text) ==
    LET left == SelectSeq(BeforeColon(Strip(text)), IsDigit)
    IN IF left = << >> THEN -1 ELSE IntOf(left)

\* C15: hour-ending 24 on date D yields the key D 23:59, which is strictly
\* greater than every key of date D with hour-ending 0..23 and strictly less
\* than every key of date D + 1 (the other keys: those of every text of one
\* or two characters, which state each hour-ending 0..24).
C15_HourEnding24IsLastOfDay ==
    (hk.phase = "keyed" /\ HourEndingOf(hk.raw) = 24) =>
        /\ hk.key = DayAt(hk.day, 23, 59)
        /\ \A h \in 0..23 : \E t \in TextsUpTo(2) : HourEndingOf(t) = h
        /\ \A t \in TextsUpTo(2) :
              /\ HourEndingOf(t) \in 0..23 =>
                    /\ csv_row_timestamp(hk.day, t) # NoTimestamp
                    /\ csv_row_timestamp(hk.day, t) < hk.key
              /\ csv_row_timestamp(hk.day + 1, t) # NoTimestamp =>
                    hk.key < csv_row_timestamp(hk.day + 1, t)

\* The key of the text 24:00 was derived.
C15_Witness ==
    /\ hk.phase = "keyed"
    /\ hk.raw = << "2", "4", ":", "0", "0" >>
    /\ hk.key = DayAt(hk.day, 23, 59)

\* ---- download properties
\* The candidates whose request succeeded so far.
Succeeded ==
    { dl.requested[i].index : i \in { j \in DOMAIN dl.requested : dl.requested[j].status = 200 } }

\* C16: at every point of download_doc, a break of the stream or a kill of
\* the process included, the destination holds what it held before the call
\* or the complete body of one candidate whose request succeeded; when the
\* call ends in an error the destination is what it was.
C16_NoPartialDownload ==
    dl.phase # "none" =>
        /\ \/ dl.files["destination"] = dl.before
           \/ \E c \in Succeeded : dl.files["destination"] = BodyOf(c, dl.chunks)
        /\ dl.phase = "raised" => dl.files["destination"] = dl.before

\* The process was killed, or the stream broke, with a part of the body
\* written; and a call returned with the destination replaced.
C16_Witness ==
    /\ dl.phase \in {"streaming", "raised"}
    /\ dl.killed \/ dl.error = -2
    /\ dl.chunks = 2
    /\ Len(Streamed) = 1
    /\ dl.before = OldBody

\* What the call did with request number i of status st.
MovedOnAfter(i) ==
    \/ i < Len(dl.requested)
    \/ dl.phase = "loop" /\ dl.index = i + 1

PropagatedFrom(i) ==
    /\ i = Len(dl.requested)
    /\ dl.phase = "raised"
    /\ dl.error = dl.requested[i].status

\* The requests so far went to the candidates 1, 2, ... in list order, and
\* none followed a success.
InListOrderUntilSuccess ==
    \A i \in DOMAIN dl.requested :
        /\ dl.requested[i].index = i
        /\ dl.requested[i].status = 200 => i = Len(dl.requested)

\* C17 as stated: candidates are tried strictly in list order; HTTP 400, 404,
\* 429 or any 5xx from a candidate that is not the last moves on to the next
\* one, the same response from the last candidate propagates as the error,
\* and after the first success no further candidate is requested.
C17_FallbackOnAny5xx ==
    dl.phase # "none" =>
        /\ InListOrderUntilSuccess
        /\ \A i \in DOMAIN dl.requested :
              (dl.requested[i].status \in {400, 404, 429} \cup 500..599) =>
                    IF i < dl.count THEN MovedOnAfter(i) ELSE PropagatedFrom(i)

\* C17, amended: the statuses that move on to the next candidate are 400,
\* 404, 429, 500, 502, 503 and 504; from the last candidate they propagate,
\* and any other error status (403, 501, ...) propagates from whichever
\* candidate returned it.
C17_FallbackOnListedStatuses ==
    dl.phase # "none" =>
        /\ InListOrderUntilSuccess
        /\ \A i \in DOMAIN dl.requested :
              IF dl.requested[i].status = 200 THEN dl.phase \in {"streaming", "returned", "raised"}
              ELSE IF dl.requested[i].status \in {400, 404, 429, 500, 502, 503, 504} /\ i < dl.count
              THEN MovedOnAfter(i)
              ELSE PropagatedFrom(i)

\* Two candidates were passed over and the third one succeeded.
C17_Witness ==
    /\ dl.phase = "returned"
    /\ Len(dl.requested) = 3
    /\ dl.requested[1].status = 404
    /\ dl.requested[2].status = 503
    /\ dl.requested[3].status = 200

\* ---- item loop properties
\* The name-resolution failures since the last item that was processed or
\* failed otherwise.
RECURSIVE TrailingDnsFailures(_)
TrailingDnsFailures(outcomes) ==
    IF outcomes = << >> THEN 0
    ELSE LET last == outcomes[Len(outcomes)]
             front == SubSeq(outcomes, 1, Len(outcomes) - 1)
         IN IF last = "dns" THEN 1 + TrailingDnsFailures(front)
            ELSE IF last = "skip" THEN TrailingDnsFailures(front)
            ELSE 0

FailedItems == { i \in DOMAIN nf.outcomes : nf.outcomes[i] \in {"dns", "other"} }

Listed == ls.phase # "none"

\* How many of the first n requests were answered with rows.
RECURSIVE AnsweredBefore(_)
AnsweredBefore(n) ==
    IF n = 0 THEN 0
    ELSE AnsweredBefore(n - 1) + (IF ls.requests[n].outcome = "rows" THEN 1 ELSE 0)

\* The rows of the answered pages among the first n requests, in request order.
RECURSIVE RowsOfFirst(_)
RowsOfFirst(n) ==
    IF n = 0 THEN << >>
    ELSE RowsOfFirst(n - 1) \o ls.requests[n].rows

EndsListing(i) ==
    /\ ls.requests[i].outcome = "rows"
    /\ Len(ls.requests[i].rows) < ls.page_size

\* C19: the pages requested are startPage, startPage+1, ... with no gaps (a
\* page is requested again only after a 429, never skipped and never gone
\* back to), no request follows the first response that is empty or shorter
\* than the page size, and the list held (and returned) is the seed items
\* followed by the items of each fetched page in page order.
C19_PagesInOrderUntilShortPage ==
    Listed =>
      /\ \A i \in DOMAIN ls.requests :
           /\ ls.requests[i].page = ls.start_page + AnsweredBefore(i - 1)
           /\ EndsListing(i) => i = Len(ls.requests) /\ ls.phase = "returned"
           /\ \A k \in DOMAIN ls.requests[i].rows :
                ls.requests[i].rows[k].archive_page = ls.requests[i].page
      /\ ls.docs = ls.seed_docs \o RowsOfFirst(Len(ls.requests))
      /\ ls.phase = "returned" =>
           /\ ls.requests # << >>
           /\ EndsListing(Len(ls.requests))
           /\ ls.docs = SeedDocs(ls.page + 1, ls.page_size)

C19_Witness ==
    /\ ls.phase = "returned"
    /\ ls.start_page = 2
    /\ ls.seed_docs # << >>
    /\ Len(ls.requests) = 2
    /\ Len(ls.requests[1].rows) = ls.page_size
    /\ ls.requests[2].rows # << >>
    /\ Len(ls.docs) = 5
    /\ \A i \in 1..5 : ls.docs[i].docId = i

\* The number of 429 answers to the same page up to and including request i.
RECURSIVE ThrottledRun(_)
ThrottledRun(i) ==
    IF i = 0 \/ ls.requests[i].outcome # "429" THEN 0 ELSE 1 + ThrottledRun(i - 1)

\* C20: on HTTP 429 the same page is requested again at most
\* archive_listing_retries times, after a sleep of max(server hint,
\* base * 2^attempt) before retry number attempt; the 429 that follows the
\* last allowed retry, and any other error, leaves the call as an error.
C20_ThrottledPageRetriedWithBackoff ==
    Listed =>
      /\ \A i \in DOMAIN ls.requests :
           LET r == ls.requests[i]
               attempt == ThrottledRun(i)
           IN /\ r.outcome = "429" /\ attempt <= ls.archive_listing_retries =>
                   IF i < Len(ls.requests)
                   THEN ls.requests[i + 1].page = r.page
                   ELSE ls.phase = "listing" /\ ls.page = r.page
              /\ r.outcome = "429" /\ attempt > ls.archive_listing_retries =>
                   /\ attempt = ls.archive_listing_retries + 1
                   /\ i = Len(ls.requests)
                   /\ ls.phase = "raised" /\ ls.error = 429
              /\ r.outcome = "error" =>
                   i = Len(ls.requests) /\ ls.phase = "raised" /\ ls.error # 429
      /\ Len(ls.cooldowns) =
             Min(ThrottledRun(Len(ls.requests) - (IF ls.phase = "raised" /\ ls.error # 429
                                                  THEN 1 ELSE 0)),
                 ls.archive_listing_retries)
      /\ \A attempt \in DOMAIN ls.cooldowns :
           ls.cooldowns[attempt].seconds =
               Max(ls.cooldowns[attempt].retry_after,
                   ls.retry_sleep_seconds * Pow2(attempt))

C20_Witness ==
    /\ ls.phase = "raised"
    /\ ls.error = 429
    /\ ls.archive_listing_retries = 2
    /\ Len(ls.requests) = 4
    /\ ls.requests[1].outcome = "rows"
    /\ ls.requests[4].page = 2
    /\ ls.cooldowns = << [retry_after |-> 7, seconds |-> 7], [retry_after |-> 0, seconds |-> 12] >>

\* ---- dataset loop properties
InRun == rn.phase # "none"

ListingFailed(d) == rn.of[d].summary = "archive_listing_failed"

\* C21: a listing failure halts only its dataset: the summary status is
\* archive_listing_failed and the checkpoint status failed, no item of the
\* dataset is fetched or merged, the cache pages and the checkpoint's highest
\* listed page are those from before the failure, and the run goes on to the
\* next dataset (every later dataset is started, none is left untouched once
\* the run has finished).
C21_ListingFailureHaltsOnlyDataset ==
    InRun =>
      \A d \in 1..rn.count :
        ListingFailed(d) =>
          /\ rn.of[d].status = "failed"
          /\ rn.of[d].items = << >> /\ rn.of[d].merged = << >> /\ rn.of[d].marker = << >>
          /\ rn.of[d].cache = rn.of[d].at_failure[1].cache
          /\ rn.of[d].last_listed_page = rn.of[d].at_failure[1].last_listed_page
          /\ rn.of[d].cache = [p \in 1..rn.of[d].last_listed_page |-> p]
          /\ rn.dataset > d
          /\ rn.phase = "finished" => \A e \in 1..rn.count : rn.of[e].summary # "none"
          /\ \A e \in (d + 1)..rn.count :
               rn.dataset > e => rn.of[e].requests # << >>

C21_Witness ==
    /\ rn.phase = "finished"
    /\ ListingFailed(1)
    /\ rn.of[1].cache = << 1 >>
    /\ rn.of[1].last_listed_page = 1
    /\ rn.of[2].summary = "completed"
    /\ rn.of[2].merged = << 1, 2 >>

BadShapeAt(d, i) == rn.of[d].requests[i].outcome = "bad_shape"

\* C29: a data-shape error (an unexpected shape of a listing page, a zero-byte
\* or unreadable payload of an item) makes only that page or item be skipped
\* and recorded as a failure, and processing continues with the following
\* pages and items: once the run has finished, every page after a rejected
\* one was requested, the items listed were processed, and every zero-byte
\* or unreadable item has a failure record and is not marked as merged.
C29_ShapeErrorSkipsOnlyOffender ==
    rn.phase = "finished" =>
      \A d \in 1..rn.count :
        /\ \A i \in DOMAIN rn.of[d].requests :
             BadShapeAt(d, i) =>
               /\ \E f \in Range(rn.failures) : f.dataset = d /\ f.stage = "archive-listing"
               /\ \A p \in (rn.of[d].requests[i].page + 1)..(rn.remote[d] + 1) :
                    \E r \in Range(rn.of[d].requests) : r.page = p
               /\ Len(rn.of[d].items) = Len(rn.of[d].cache)
        /\ \A k \in DOMAIN rn.of[d].items :
             rn.payload[rn.of[d].items[k].doc] \in {"zero_byte", "unreadable"} =>
               /\ rn.of[d].items[k].outcome = "failed"
               /\ \E f \in Range(rn.failures) :
                    f.dataset = d /\ f.stage = "download" /\ f.page = rn.of[d].items[k].doc
               /\ rn.of[d].items[k].doc \notin Range(rn.of[d].marker)
               /\ k < Len(rn.of[d].cache) => Len(rn.of[d].items) > k

\* ---- bulk fetch properties
BulkFetching == bk.phase # "none"

CountMismatch(r) == r.kind \in {"short", "extra"}

\* The identifiers whose payload the response returned and download_docs
\* could unwrap.
Unwrapped(r) ==
    CASE r.kind \in {"short", "broken_inner", "empty_inner"} -> Range(Tail(r.doc_ids))
      [] r.kind = "extra" -> Range(r.doc_ids) \cup {0}
      [] OTHER -> Range(r.doc_ids)

\* C22: strict download_docs raises and returns nothing whenever the number of
\* returned containers differs from the number of requested identifiers;
\* lenient download_docs never raises for a count mismatch (nor for a
\* container it cannot unwrap) and returns exactly the identifiers whose
\* payload was returned and unwrapped.
C22_StrictRaisesLenientOmits ==
    BulkFetching =>
      \A i \in DOMAIN bk.requests :
        LET r == bk.requests[i]
        IN /\ r.strict_count /\ CountMismatch(r) => r.raised /\ r.ret = {}
           /\ r.strict_count /\ r.raised =>
                bk.result \cap Range(r.doc_ids) = {}
           /\ ~r.strict_count /\ r.kind # "http_error" =>
                ~r.raised /\ r.ret = Unwrapped(r)

C22_Witness ==
    /\ bk.phase = "done"
    /\ bk.caller = "backfill"
    /\ bk.count = 3
    /\ Len(bk.requests) = 2
    /\ bk.requests[1].kind = "short"
    /\ bk.requests[2].kind = "empty_inner"
    /\ bk.result = {2}

C22_WitnessStrict ==
    /\ bk.caller = "main"
    /\ Len(bk.requests) = 2
    /\ bk.requests[1].kind = "complete"
    /\ bk.requests[2].kind = "short"
    /\ bk.requests[2].raised
    /\ bk.phase = "bulk_disabled"

\* The items still to fetch when the bulk fetch starts.
PendingItems == ((bk.first + 1)..bk.count) \ bk.known

\* The split into consecutive chunks in item order, each pending item in
\* exactly one chunk, each request within the configured chunk size.
ChunksPartitionInOrder ==
    /\ \A k \in DOMAIN bk.doc_chunks :
         /\ Len(bk.doc_chunks[k]) <= bk.chunk_size
         /\ \A i \in 1..(Len(bk.doc_chunks[k]) - 1) :
              bk.doc_chunks[k][i + 1] = bk.doc_chunks[k][i] + 1
         /\ k > 1 => bk.doc_chunks[k][1] = bk.doc_chunks[k - 1][Len(bk.doc_chunks[k - 1])] + 1
    /\ \A item \in PendingItems :
         Cardinality({ k \in DOMAIN bk.doc_chunks : item \in Range(bk.doc_chunks[k]) }) = 1
    /\ \A i \in DOMAIN bk.requests :
         LET r == bk.requests[i]
         IN /\ Len(r.doc_ids) <= bk.chunk_size
            /\ Range(r.doc_ids) \subseteq Range(bk.doc_chunks[r.chunk_id]) \cap PendingItems

\* C23: every bulk request carries at most the configured chunk size of
\* identifiers and never more than the remote API's per-request cap, every
\* pending item belongs to exactly one chunk, and chunk order follows item
\* order.
C23_ChunksWithinSizeAndApiCap ==
    BulkFetching =>
      /\ ChunksPartitionInOrder
      /\ \A i \in DOMAIN bk.requests :
           Len(bk.requests[i].doc_ids) <= BULK_DOWNLOAD_CHUNK_SIZE

\* The rest of C23 without the remote cap.
ChunksWithinConfiguredSize == BulkFetching => ChunksPartitionInOrder

\* ---- checkpoint save properties
Saving == sv.phase # "none"

CompleteRecord(file, record) ==
    file.exists /\ file.record = record /\ file.parts = sv.length

\* C24: at every point of a save, and after a kill at any point of it, the
\* checkpoint file at its final path holds the complete record it held before
\* the save began (or is still missing, when no save had completed) or the
\* complete new record, never a part of one.
C24_CheckpointNeverPartial ==
    Saving =>
      /\ sv.files.state = sv.previous \/ CompleteRecord(sv.files.state, sv.saves)
      /\ sv.files.state.exists => sv.files.state.parts = sv.length

C24_Witness ==
    /\ sv.length = 2
    /\ sv.kills = 1
    /\ sv.saves = 2
    /\ sv.phase = "idle"
    /\ CompleteRecord(sv.files.state, 1)
    /\ sv.files.tmp.exists /\ sv.files.tmp.record = 2 /\ sv.files.tmp.parts = 1

\* ---- checkpoint load properties
\* C25: a run that finds the checkpoint missing, not valid JSON, or valid JSON
\* that is no object treats it as absent: load_dataset_state does not raise,
\* and the run starts as on a fresh directory - initial record, no listing
\* cache, listing from page 1, item index 0.
C25_DamagedCheckpointIsAbsent ==
    [][ (/\ pc = "start"
         /\ pc' # "start"
         /\ stateFile \in DamagedStates \cup {NoState})
        => (pc' # "died" /\ FreshStart') ]_vars

\* The same for the damaged checkpoints that load_dataset_state can decode.
DecodableDamageIsAbsent ==
    [][ (/\ pc = "start"
         /\ pc' # "start"
         /\ stateFile \in (DamagedStates \ {[kind |-> "undecodable"]}) \cup {NoState})
        => (pc' # "died" /\ FreshStart') ]_vars

\* ---- period file header properties
Appending == mh.phase # "none"

Tags(rows) == [i \in DOMAIN rows |-> rows[i][1]]

\* C26: once a call has written with the timestamp column present (a
\* structured append), the first column of the header is the timestamp
\* column; the file is rewritten to add the column at most once, by the first
\* such append onto a file lacking it, with every existing row kept; later
\* appends do not rewrite it.
C26_TimestampColumnFirst ==
    Appending =>
      /\ (\E i \in DOMAIN mh.calls : mh.calls[i].structured) =>
            detect_post_datetime_column(<< mh.file.header[1] >>) # NoColumn
      /\ Cardinality({ i \in DOMAIN mh.calls : mh.calls[i].rewritten }) <= 1
      /\ \A i \in DOMAIN mh.calls :
           LET after == IF i < Len(mh.calls) THEN mh.calls[i + 1].before ELSE mh.file
           IN /\ mh.calls[i].rewritten =>
                   /\ \A j \in 1..(i - 1) : ~mh.calls[j].structured
                   /\ SubSeq(Tags(after.rows), 1, Len(mh.calls[i].before.rows))
                         = Tags(mh.calls[i].before.rows)
              /\ mh.calls[i].before.exists /\ ~mh.calls[i].rewritten =>
                   after.header = mh.calls[i].before.header

\* The same with the first conjunct only for files whose first write was
\* not a raw copy of a source that brings its own timestamp column.
HeaderUpgradedOnce ==
    Appending =>
      /\ Cardinality({ i \in DOMAIN mh.calls : mh.calls[i].rewritten }) <= 1
      /\ \A i \in DOMAIN mh.calls :
           LET after == IF i < Len(mh.calls) THEN mh.calls[i + 1].before ELSE mh.file
           IN /\ mh.calls[i].rewritten =>
                   /\ \A j \in 1..(i - 1) : ~mh.calls[j].structured
                   /\ SubSeq(Tags(after.rows), 1, Len(mh.calls[i].before.rows))
                         = Tags(mh.calls[i].before.rows)
              /\ mh.calls[i].before.exists /\ ~mh.calls[i].rewritten =>
                   after.header = mh.calls[i].before.header

\* ---- add-missing properties
AddMissingReturned == pc = "add_missing" /\ bf.phase = "returned"

RowOfTag(rows, tag) == rows[CHOOSE i \in DOMAIN rows : rows[i].tag = tag]

\* C27: in add-missing mode every timestamp cell that was non-blank before
\* the call has the same value after it, under the fingerprint fill and the
\* positional fill, with and without collisions; no row is lost or added.
C27_FilledCellsUntouched ==
    AddMissingReturned =>
      /\ { bf.rows[i].tag : i \in DOMAIN bf.rows } = { bf.rowsIn[i].tag : i \in DOMAIN bf.rowsIn }
      /\ Len(bf.rows) = Len(bf.rowsIn)
      /\ \A i \in DOMAIN bf.rowsIn :
           Strip(bf.rowsIn[i].post) # Blank =>
              RowOfTag(bf.rows, bf.rowsIn[i].tag).post = bf.rowsIn[i].post

\* A fingerprint fill under a collision that filled a blank cell next to a
\* cell that had a value, and moved the rows.
C27_Witness ==
    /\ AddMissingReturned
    /\ bf.fill = "fingerprint"
    /\ Colliding(bf.doc_plan) # {}
    /\ bf.rowsIn = << [tag |-> 1, post |-> Blank, zone |-> << "x", " " >>],
                      [tag |-> 2, post |-> << "T0" >>, zone |-> << "x", " " >>] >>
    /\ bf.rows = << [tag |-> 2, post |-> << "T0" >>, zone |-> << "x", " " >>],
                    [tag |-> 1, post |-> << "T1" >>, zone |-> << "x", " " >>] >>

\* A positional fill that wrote a value.
PositionalFillWrote ==
    /\ AddMissingReturned
    /\ bf.fill = "positional"
    /\ \E i \in DOMAIN bf.rows : bf.rows[i].post = << "T1" >>

\* ---- earliest date properties
EarliestReturned == pc = "find_earliest" /\ fe.phase = "returned"

ProbesAt(level, has_docs) ==
    { i \in DOMAIN fe.probes : fe.probes[i].level = level /\ fe.probes[i].has_docs = has_docs }

InWindow(d, i) == fe.probes[i].window_start <= d /\ d <= fe.probes[i].window_end

\* The days no empty-answered window covers: the days that may have items.
MayHaveItems == { d \in ProbeDays : \A i \in DOMAIN fe.probes : InWindow(d, i) => fe.probes[i].has_docs }

\* Some set of days with items gives every answer made: a window answered
\* non-empty iff a day in it has items.
ConsistentAnswers == \A i \in DOMAIN fe.probes : fe.probes[i].has_docs => \E d \in MayHaveItems : InWindow(d, i)

SearchRange == { d \in ProbeDays : fe.search_from <= d /\ d <= fe.search_to }

\* C28: under consistent answers the result is the earliest day of the range
\* that has items (its own probe answered non-empty, every earlier day of
\* the range lies in a window answered empty) and None when no year probe
\* answered non-empty; a month answered non-empty with all its days answered
\* empty gives the month's start clamped to the range; a year answered
\* non-empty with all its months answered empty gives the year's start
\* clamped to the range.
C28_EarliestDayOrCoarseStart ==
    EarliestReturned =>
      /\ ConsistentAnswers =>
           IF ProbesAt("year", TRUE) = {}
           THEN fe.result = NoDate /\ SearchRange \cap MayHaveItems = {}
           ELSE /\ fe.result \in SearchRange
                /\ \E i \in ProbesAt("day", TRUE) : fe.probes[i].window_start = fe.result
                /\ \A d \in SearchRange : d < fe.result => d \notin MayHaveItems
      /\ ProbesAt("year", TRUE) = {} => fe.result = NoDate
      /\ (ProbesAt("month", TRUE) # {} /\ ProbesAt("day", TRUE) = {}) =>
           /\ fe.result = Max(fe.search_from, DateOf(fe.year, fe.month, 1))
           /\ fe.result \in SearchRange
      /\ (ProbesAt("year", TRUE) # {} /\ ProbesAt("month", TRUE) = {}) =>
           /\ fe.result = Max(fe.search_from, DateOf(fe.year, 1, 1))
           /\ fe.result \in SearchRange

\* Consistent answers: the first year is empty, the second year's first month
\* is empty, and the earliest day with items is the last day of the range.
C28_Witness ==
    /\ EarliestReturned
    /\ ConsistentAnswers
    /\ fe.search_from = 2
    /\ fe.search_to = DateOf(2, 2, 2)
    /\ fe.result = DateOf(2, 2, 2)
    /\ Cardinality(ProbesAt("year", FALSE)) = 1
    /\ Cardinality(ProbesAt("month", FALSE)) = 1
    /\ Cardinality(ProbesAt("day", FALSE)) = 1

\* The month fallback on a month that starts before the range.
MonthFallbackClamped ==
    /\ EarliestReturned
    /\ ProbesAt("month", TRUE) # {} /\ ProbesAt("day", TRUE) = {}
    /\ fe.result = fe.search_from
    /\ fe.search_from # DateOf(fe.year, fe.month, 1)

\* The year fallback.
YearFallbackTaken ==
    /\ EarliestReturned
    /\ ProbesAt("year", TRUE) # {} /\ ProbesAt("month", TRUE) = {}
    /\ fe.result = DateOf(2, 1, 1)

\* ---- throttle properties
Throttled == pc = "throttle"

\* The marker after each request is not below the marker after the one before.
MarkerNeverDecreases ==
    Throttled =>
      \A i \in DOMAIN th.sent :
         /\ th.sent[i].next_request_at >= 0
         /\ i > 1 => th.sent[i].next_request_at >= th.sent[i - 1].next_request_at

\* C30: the next-allowed-request-time marker never decreases, and any two
\* consecutive requests sent through _request, retries after an error status
\* or a network exception included, leave at least the configured interval
\* apart.
C30_RequestsSpacedByInterval ==
    /\ MarkerNeverDecreases
    /\ Throttled =>
         \A i \in DOMAIN th.sent :
            i > 1 => th.sent[i].at - th.sent[i - 1].at >= th.request_interval_seconds

\* A request leaves at least the interval after the response before it came.
SpacedAfterResponse ==
    Throttled =>
      \A i \in DOMAIN th.sent :
         (i > 1 /\ th.sent[i - 1].outcome # "exception") =>
            th.sent[i].at - th.sent[i - 1].ended >= th.request_interval_seconds

\* ---- resume position properties
\* The item has been dealt with for good: it has no identifier, or its
\* identifier is in the Merge Marker of its period file.
Processed(doc) == extract_doc_id(doc) = "" \/ extract_doc_id(doc) \in Range(marker[doc.month])

InItemLoop == pc \in {"doc", "doc_append", "doc_mark", "doc_ckpt", "sort", "sort_write", "sort_cache", "done"}

\* C31: the persisted next-item index never moves past an item that was not
\* successfully processed, so a resumed run with the same settings starts no
\* later than the first such item.
C31_NextIndexNotPastFailedItem ==
    (InItemLoop /\ ~hist.crashed /\ stateFile.kind = "state") =>
        \A k \in 1..Min(stateFile.next_doc_index, Len(docs)) : Processed(docs[k])

\* C34: when the item loop of a dataset has finished, the persisted status is
\* completed only if every listed item with an identifier has been processed
\* in this or an earlier run, and running_with_failures if some item failed
\* and was never processed.
C34_CompletedOnlyWhenAllProcessed ==
    (pc = "done" /\ ~hist.crashed /\ stateFile.kind = "state" /\ summaryStatus \in {"completed", "running_with_failures"}) =>
        /\ stateFile.status = "completed" => \A k \in DOMAIN docs : Processed(docs[k])
        /\ (\E k \in DOMAIN docs : ~Processed(docs[k])) => stateFile.status = "running_with_failures"

\* Within the run in which an item failed, the dataset ends with the status
\* running_with_failures.
FailingRunEndsWithFailures ==
    (pc = "done" /\ runs = 1 /\ ~hist.crashed /\ stateFile.kind = "state" /\ Len(docs) > 0 /\ summaryStatus # "archive_listing_failed") =>
        /\ stateFile.status = "completed" => \A k \in DOMAIN docs : Processed(docs[k])
        /\ (\E k \in DOMAIN docs : ~Processed(docs[k])) => stateFile.status = "running_with_failures"

\* ---- bulk and item phase properties
InPhases == pc = "item_phase"

\* C32: a dry run downloads nothing, merges nothing and leaves the persisted
\* next-item index where it was, so that a real run with the same settings
\* after it, in which nothing fails, fetches and merges every item.
C32_DryRunChangesNothing ==
    InPhases =>
      /\ ip.dry_run => ip.disk = ip.at_start
      /\ (ip.runs = 2 /\ ip.dry_runs = 1 /\ ~ip.dry_run /\ ip.phase = "stopped"
             /\ ~ip.failed /\ ~ip.killed) =>
           ip.disk.marker_ids = PhaseDocs

\* With the bulk download disabled a dry run writes no source file and
\* merges nothing.
DryRunWithoutBulkWritesNoFile ==
    (InPhases /\ ip.dry_run /\ ip.disable_bulk_download) =>
        /\ ip.disk.source_file = ip.at_start.source_file
        /\ ip.disk.merged = ip.at_start.merged
        /\ ip.disk.marker_ids = ip.at_start.marker_ids

\* C33: a bulk payload of which only a part reached its destination before
\* the process died is never taken for a complete download by a later run
\* and never merged into the period file.
C33_PartialBulkPayloadNotTaken ==
    InPhases =>
      /\ ip.taken_partial = {}
      /\ \A d \in PhaseDocs : ip.disk.merged[d] # "partial"

\* When the listing gives the size of every item, a partial payload is
\* fetched again.
SizedPartialPayloadNotTaken ==
    (InPhases /\ ip.sized) =>
      /\ ip.taken_partial = {}
      /\ \A d \in PhaseDocs : ip.disk.merged[d] # "partial"

\* ---- sort rewrite properties
SortRewrote == srt.phase = "ready" /\ srt.last.op = "sort" /\ srt.last.result = "sorted"

PositionIn(rows, row) == CHOOSE i \in DOMAIN rows : rows[i] = row

LastKey(row) == KeyOrder(csv_row_sort_key(row, LastStrategy))

\* C35: when sort_monthly_csv has rewritten a file, the rows written are a
\* permutation of the rows read, the rows with a key are in non-decreasing
\* (ascending) or non-increasing (descending) key order with rows of equal
\* key in the relative order they had, and the Sort Cache record written
\* after the rewrite carries the size and mtime of the rewritten file.
C35_RewriteIsStablePermutation ==
    SortRewrote =>
      LET read == srt.last.before.rows
          written == srt.file.rows
          keyed == parsed_rows(written, LastStrategy)
      IN /\ Len(written) = Len(read)
         /\ \A r \in Range(read) \cup Range(written) :
               Cardinality({ i \in DOMAIN read : read[i] = r })
                  = Cardinality({ i \in DOMAIN written : written[i] = r })
         /\ \A i, j \in DOMAIN keyed :
               i < j =>
                  /\ IF srt.last.sort_order = "ascending"
                     THEN LastKey(keyed[i]) <= LastKey(keyed[j])
                     ELSE LastKey(keyed[i]) >= LastKey(keyed[j])
                  /\ LastKey(keyed[i]) = LastKey(keyed[j]) =>
                        PositionIn(read, keyed[i]) < PositionIn(read, keyed[j])
         /\ srt.cache # srt.last.cache_before =>
               /\ srt.cache.classification = "sorted"
               /\ srt.cache.size_bytes = Signature(srt.file).size
               /\ srt.cache.mtime_ns = Signature(srt.file).mtime

\* A descending rewrite of three rows: the two rows of equal key keep their
\* order ahead of the row of smaller key, and the record written carries the
\* new signature.
C35_Witness ==
    /\ SortRewrote
    /\ srt.last.sort_order = "descending"
    /\ srt.last.sort_strategy = "postdatetime"
    /\ srt.last.before.rows = << << "c", 0, 1 >>, << "a", 2, 0 >>, << "e", 1, 2 >> >>
    /\ srt.file.rows = << << "a", 2, 0 >>, << "e", 1, 2 >>, << "c", 0, 1 >> >>
    /\ srt.cache # srt.last.cache_before
    /\ srt.cache.mtime_ns = srt.file.mtime

\* ---- listing order properties
\* The next page is about to be requested after a page listed in this run.
NextPageDue == pc = "listing" /\ requested # << >>

\* The last lines of the Item Listing Cache are the items of the page
\* listed last, in order.
LastPageCached ==
    /\ Len(cacheFile.lines) >= Len(pageRows)
    /\ \A i \in DOMAIN pageRows :
          cacheFile.lines[Len(cacheFile.lines) - Len(pageRows) + i] = CacheLine(page - 1, pageRows[i])

\* C36: with resume enabled, page N+1 is not requested until the items of
\* page N are appended to the Item Listing Cache and the checkpoint is saved
\* with highest page N and total items the number of items listed so far.
C36_PageRecordedBeforeNextRequest ==
    NextPageDue =>
      /\ requested[Len(requested)] = page - 1
      /\ pageRows # << >>
      /\ LastPageCached
      /\ stateFile.kind = "state"
      /\ stateFile.last_listed_page = page - 1
      /\ stateFile.total_listed_docs = Len(docs)
      /\ ~stateFile.listing_complete

\* Two pages of one item each are listed and recorded; page 3 is due.
C36_Witness ==
    /\ NextPageDue
    /\ requested = << 1, 2 >>
    /\ page = 3
    /\ Len(cacheFile.lines) = 2
    /\ stateFile.last_listed_page = 2
    /\ stateFile.total_listed_docs = 2

\* C39: within one run, for every period file whose Merge Marker has been
\* loaded, the membership set in memory is the set of identifiers in the
\* marker file on disk - an identifier enters the set exactly when its line
\* is appended to the file.
C39_MembershipSetMatchesMarker ==
    \A m \in DOMAIN marker_cache :
        marker_cache[m].loaded => marker_cache[m].ids = load_marker_doc_ids(marker[m])

\* A later run has loaded a marker and recorded two items in it.
C39_Witness ==
    /\ pc = "doc"
    /\ runs >= 2
    /\ \E m \in DOMAIN marker_cache :
          /\ marker_cache[m].loaded
          /\ Len(marker[m]) >= 2
          /\ marker_cache[m].ids = load_marker_doc_ids(marker[m])

\* A _request call has ended and the next one has sent nothing yet.
CallEnded ==
    pc = "throttle" /\ th.last_call.result # "none" /\ Len(th.sent) = th.last_call.sends

\* The attempt that ended the last call, as the log of requests has it.
EndingAttempt == th.sent[Len(th.sent)]

\* What the sentence says of a call that has ended.
EndsAsStated ==
    /\ th.last_call.attempts <= th.max_retries
    /\ th.last_call.refreshes <= 1
    /\ th.last_call.result = "returned" =>
          /\ Len(th.sent) > 0
          /\ EndingAttempt.outcome = "ok"
          /\ EndingAttempt.attempt = th.last_call.attempts
    /\ (th.last_call.result = "raised" /\ th.last_call.attempts >= th.max_retries) =>
          /\ Len(th.sent) > 0
          /\ EndingAttempt.attempt = th.max_retries
          /\ th.last_call.error = EndingAttempt.outcome
          /\ th.last_call.error \in {"exception", "not_found", "retryable"}

\* C38: one _request call makes at most max_retries attempts, returns the
\* first response whose status is neither retryable nor an error, refreshes
\* the bearer token at most once, and raises the error of its last attempt
\* once the attempts are used up.
C38_RequestEndsWithinAttempts == CallEnded => EndsAsStated

\* With at least one attempt allowed the call ends as the sentence says.
EndsAsStatedWithAnAttempt == (CallEnded /\ th.max_retries >= 1) => EndsAsStated

\* A call that met 401 twice, refreshed once and raised at its third attempt.
RefreshedOnceInThreeAttempts ==
    /\ CallEnded
    /\ th.max_retries = 3
    /\ th.last_call = [attempts |-> 3, result |-> "raised", error |-> "not_found",
                       refreshes |-> 1, sends |-> 3]
    /\ th.sent[1].outcome = "refresh_request_exception"
    /\ th.sent[2].outcome = "unauthorized"

\* rebuild_monthly_file is running or has returned.
Rebuilding == pc = "rebuild"

\* An identifier of the marker has no source, neither on disk nor fetched.
SourceMissing == \E i \in DOMAIN bf.doc_ids : bf.have[bf.doc_ids[i]] = "none"

\* The sources at hand give no row.
NoRowsResult == assembled_rows(bf.doc_ids, bf.have) = << >>

\* C37: with a source missing for an identifier of the Merge Marker, with no
\* resulting row, or in dry-run mode, rebuild_monthly_file leaves the period
\* file and its Sort Cache as they were; the file is replaced, through the
\* temporary file, only when every identifier of the marker has a source.
C37_RebuildOnlyWithEverySource ==
    Rebuilding =>
        /\ (SourceMissing \/ NoRowsResult \/ bf.dry_run) =>
              (bf.monthly = bf.monthlyIn /\ bf.cache = bf.cacheIn)
        /\ bf.monthly # bf.monthlyIn =>
              /\ ~SourceMissing
              /\ bf.monthly.rows = bf.output_rows
              /\ ~bf.tmp.exists

\* A file rebuilt after a fetch of a source that was not on disk.
C37_Witness ==
    /\ Rebuilding
    /\ bf.status = "rebuilt"
    /\ bf.monthly # bf.monthlyIn
    /\ Len(bf.monthly.rows) = 2
    /\ \E d \in Range(bf.doc_ids) : bf.local_source_map[d] = "none" /\ bf.have[d] = "rows"

\* A call that returned with a source still missing after the fetch.
SkippedWithSourceMissing ==
    /\ Rebuilding
    /\ bf.status = "skipped_missing_sources"
    /\ bf.has_client /\ bf.download_missing_sources /\ ~bf.dry_run
    /\ \E d \in Range(bf.doc_ids) : bf.local_source_map[d] = "none" /\ bf.have[d] = "rows"

====
